---- MODULE Spec2Model ----
(***************************************************************************)
(* classic_locks: named resource locks over three backends (PostgreSQL     *)
(* advisory locks, flock() on lock files, MS SQL Server application        *)
(* locks).  The model follows the Lock factories and the Lock context      *)
(* managers of source/classic/locks, one action per step of __enter__ and  *)
(* __exit__, together with the lock managers of the three backends the     *)
(* queries and system calls of the code talk to.                           *)
(*                                                                         *)
(* Python values: a `str | None` value is a string, None being "None"; a   *)
(* `bool | None` or `int | None` value is a sequence, <<>> for None and    *)
(* <<v>> for the value v.  Time is counted in ticks of a monotonic clock.  *)
(***************************************************************************)
EXTENDS Integers, Sequences, FiniteSets, TLC

\***************************************************************** bounds
NumHolders == 2     \* independent connections / sessions / lock openers
MaxElapsed == 2     \* an acquire's elapsed time is followed up to this many ticks
MaxTimeout == 1     \* largest timeout a caller passes, in ticks
MaxHold == 2        \* cap on a connection's counted holds of one lock
Delay == 1          \* the configured delay between two attempts, in ticks

Holders == 1..NumHolders
\* The cleaner of a FileLocker, and all that open lock files.
Cleaner == 0
Openers == Holders \cup {Cleaner}
Resources == {"r1", "r2"}

\***************************************************************** values
None == "None"
Nothing == <<>>
Just(v) == <<v>>

\* Python truth value of a `bool | None`: None and False are falsy.
TruthyBool(b) == b # Nothing /\ b[1] = TRUE
\* Python truth value of an `int | None`: None and 0 are falsy.
TruthyInt(n) == n # Nothing /\ n[1] # 0

EXCLUSIVE == "EXCLUSIVE"
SHARED == "SHARED"
TRANSACTION == "TRANSACTION"
SESSION == "SESSION"

\******************************************************** resource id codec
\* The first 8 bytes of blake2b(resource.encode('utf-8')).digest().
Blake2bDigest8(resource) ==
    CASE resource = "r1" -> <<155, 111, 200, 220, 124, 175, 242, 141>>
      [] resource = "r2" -> <<43, 116, 198, 6, 19, 61, 140, 172>>
      [] resource = "" -> <<120, 106, 2, 247, 66, 1, 89, 3>>
      [] resource = "order-42" -> <<51, 67, 240, 54, 13, 180, 75, 118>>

\* Variant: the 8 bytes read as an unsigned integer.
FromBytesLittleUnsigned(b) ==
    LET limb(i) == b[2 * i - 1] + 256 * b[2 * i]
    IN  <<limb(1), limb(2), limb(3), limb(4)>>

\* int.from_bytes(b, 'little', signed=True) of 8 bytes, as four 16-bit limbs,
\* least significant first; the last limb carries the sign.
FromBytesLittleSigned(b) ==
    LET limb(i) == b[2 * i - 1] + 256 * b[2 * i]
        top == limb(4)
    IN  <<limb(1), limb(2), limb(3), IF top >= 32768 THEN top - 65536 ELSE top>>

get_resource_id(resource) == FromBytesLittleSigned(Blake2bDigest8(resource))

\* PGAdvisoryLocker.__get_resource_id of the legacy module.
PGAdvisoryLocker_get_resource_id(resource) ==
    FromBytesLittleSigned(Blake2bDigest8(resource))

\************************************************** PostgreSQL lock selector
\* 'needle in haystack' of Python strings.
Contains(haystack, needle) ==
    \E i \in 1..(Len(haystack) - Len(needle) + 1) :
        SubSeq(haystack, i, i + Len(needle) - 1) = needle

\* Variant: a selector that knows no transaction-level function.
GetLockFnSessionLevel(block, lock_type, scope, default_block, default_lock_type, default_scope) ==
    LET b == IF block # Nothing THEN block ELSE default_block
        t == IF lock_type # None THEN lock_type ELSE default_lock_type
    IN  "pg_"
        \o (IF ~TruthyBool(b) THEN "try_" ELSE "")
        \o "advisory_lock"
        \o (IF t = SHARED THEN "_shared" ELSE "")

\* Variant: a selector that knows only the transaction-level functions.
GetLockFnTransactionLevel(block, lock_type, scope, default_block, default_lock_type, default_scope) ==
    LET b == IF block # Nothing THEN block ELSE default_block
        t == IF lock_type # None THEN lock_type ELSE default_lock_type
    IN  "pg_"
        \o (IF ~TruthyBool(b) THEN "try_" ELSE "")
        \o "advisory_xact_lock"
        \o (IF t = SHARED THEN "_shared" ELSE "")

\* Variant: a selector that tests the block argument as passed, before the
\* default is applied.
GetLockFnRawBlock(block, lock_type, scope, default_block, default_lock_type, default_scope) ==
    LET t == IF lock_type # None THEN lock_type ELSE default_lock_type
        s == IF scope # None THEN scope ELSE default_scope
    IN  "pg_"
        \o (IF ~TruthyBool(block) THEN "try_" ELSE "")
        \o "advisory_"
        \o (IF s = TRANSACTION THEN "xact_" ELSE "")
        \o "lock"
        \o (IF t = SHARED THEN "_shared" ELSE "")

get_lock_fn(block, lock_type, scope, default_block, default_lock_type, default_scope) ==
    LET b == IF block # Nothing THEN block ELSE default_block
        t == IF lock_type # None THEN lock_type ELSE default_lock_type
        s == IF scope # None THEN scope ELSE default_scope
    IN  "pg_"
        \o (IF ~TruthyBool(b) THEN "try_" ELSE "")
        \o "advisory_"
        \o (IF s = TRANSACTION THEN "xact_" ELSE "")
        \o "lock"
        \o (IF t = SHARED THEN "_shared" ELSE "")

\* Variant: every session-level lock paired with the exclusive unlock.
GetUnlockFnUnshared(lock_fn) ==
    IF Contains(lock_fn, "xact") THEN None ELSE "pg_advisory_unlock"

\* Variant: a table that has no entry for the try functions.
GetUnlockFnWithoutTry(lock_fn) ==
    IF Contains(lock_fn, "xact") THEN None
    ELSE CASE lock_fn = "pg_advisory_lock" -> "pg_advisory_unlock"
           [] lock_fn = "pg_advisory_lock_shared" -> "pg_advisory_unlock_shared"
           [] OTHER -> None

get_unlock_fn(lock_fn) ==
    IF Contains(lock_fn, "xact") THEN None
    ELSE CASE lock_fn = "pg_advisory_lock" -> "pg_advisory_unlock"
           [] lock_fn = "pg_advisory_lock_shared" -> "pg_advisory_unlock_shared"
           [] lock_fn = "pg_try_advisory_lock" -> "pg_advisory_unlock"
           [] lock_fn = "pg_try_advisory_lock_shared" -> "pg_advisory_unlock_shared"
           [] OTHER -> None

\****************************************************** MS SQL Server selector
OWNER_TYPE_TRANSACTION == "Transaction"
OWNER_TYPE_SESSION == "Session"

\* Variant: the timeout handed on in seconds.
HandleTimeoutInSeconds(timeout, block) ==
    IF ~TruthyBool(block) THEN 0
    ELSE IF timeout = Nothing THEN -1
    ELSE IF timeout[1] > 0 THEN timeout[1] ELSE -1

handle_timeout(timeout, block) ==
    IF ~TruthyBool(block) THEN 0
    ELSE IF timeout = Nothing THEN -1
    ELSE IF timeout[1] > 0 THEN timeout[1] * 1000 ELSE -1

\* Variant: the lock type decides even when a custom mode is configured.
GetLockModeByTypeOnly(lock_type, default_lock_type, custom_mode) ==
    LET t == IF lock_type # None THEN lock_type ELSE default_lock_type
    IN  IF t = EXCLUSIVE THEN "Exclusive" ELSE "Shared"

get_lock_mode(lock_type, default_lock_type, custom_mode) ==
    IF custom_mode # None /\ custom_mode # "" THEN custom_mode
    ELSE LET t == IF lock_type # None THEN lock_type ELSE default_lock_type
         IN  IF t = EXCLUSIVE THEN "Exclusive" ELSE "Shared"

\******************************************************************* state
VARIABLES
    backend,     \* "pg", "file" or "mssql": the driver the callers use
    args,        \* the option values the callers of this run pass
    factory,     \* the configured factory (AcquireLock / FileLocker) object
    lock,        \* lock[h]: the Lock object holder h is using, or NoLock
    pc,          \* pc[h]: where holder h stands in `with lock: body`
    elapsed,     \* elapsed[h]: time.monotonic() - start_time at the last step
                 \*   of the holder's current (or just ended) __enter__
    wake_at,     \* wake_at[h]: elapsed time at which time.sleep(delay) returns
    pg_locks,    \* PostgreSQL advisory lock table, per connection and key
    fd,          \* fd[o]: the file the opener's file object (FileLock.fd,
                 \*   the cleaner's fd) is open on, or None; a file that was
                 \*   removed while open goes by a name no path leads to
    flocks,      \* flocks[o]: the flock() mode held through fd[o]
    dir,         \* the lock files there are in the directory of the locker
    cleaner,     \* where FileLocker.__remove_files stands: the files it has
                 \*   listed and not yet visited, the file it is at
    nest,        \* a caller that enters two Locks for one resource, one
                 \*   inside the other, on one PostgreSQL connection: where
                 \*   it stands, the two Locks, the unlock queries executed
    applocks,    \* SQL Server application locks, per session and resource
    outcome,     \* outcome[h]: how the protected body ended
    result,      \* result[h]: what the with statement handed to its caller
    exits,       \* exits[h]: calls of Lock.__exit__ in the current context
    grants,      \* grants[h]: locks the backend granted to the holder's
                 \*   current (or just ended) __enter__
    free_seen,   \* free_seen[h]: within its timeout, this __enter__ has been
                 \*   through a state with no conflicting lock of another holder
    txn_ended,   \* txn_ended[h]: the holder's transaction has ended since the
                 \*   Lock of its current context was acquired
    request,     \* request[h]: the arguments of the factory call that produced
                 \*   lock[h]
    attempts,    \* attempts[h]: backend calls made by the holder's current (or
                 \*   just ended) __enter__
    error,       \* error[h]: the exception the holder's __enter__ has raised
    fault,       \* fault[h]: the failure, other than a conflicting lock, that
                 \*   a backend call of the holder's current __enter__ has met
    wrapper,     \* the call in progress of a method decorated with locking()
    call,        \* the last call of one of the selector and codec functions:
                 \*   the function, its arguments and what it returned
    answer,      \* answer[h]: what the last backend call of the holder's
                 \*   __enter__ answered (fetchone()[0]), database Locks only
    issued       \* issued[h]: the calls that the holder's current Lock has
                 \*   made on the connection it was given

vars == <<backend, args, factory, lock, pc, elapsed, wake_at, pg_locks, fd, flocks,
          applocks, outcome, result, exits, grants, free_seen, txn_ended,
          request, attempts, error, fault, wrapper, call, answer, issued,
          dir, cleaner, nest>>

\* The state of the Locks and of the backends, which the decorator reaches
\* only through the factory it was given and the selector and codec
\* functions not at all.
lock_vars ==
    <<backend, args, factory, lock, pc, elapsed, wake_at, pg_locks, fd, flocks,
      applocks, outcome, result, exits, grants, free_seen, txn_ended, request,
      attempts, error, fault, answer, issued, dir, cleaner,
      nest>>

NoLock == [cls |-> "none"]
NoRequest ==
    [resource |-> None, block |-> Nothing, timeout |-> Nothing,
     lock_type |-> None, scope |-> None]

\* errors.ResourceIsLocked(resource=...): the exception and its field.
ResourceIsLocked(resource) == [exc |-> "ResourceIsLocked", resource |-> resource]
NoError == [exc |-> None, resource |-> None]

\* Positions: idle -> attempt <-> sleep (inside __enter__), attempt -> held
\* (the body runs) | raised; held -> exiting (the body ended) -> done;
\* raised and done return to idle.
InEnter(h) == pc[h] \in {"attempt", "sleep"}
InContext(h) == pc[h] \in {"held", "exiting"}

\************************************************* PostgreSQL advisory locks
\* The lock manager behind SELECT pg_[try_]advisory_[xact_]lock[_shared](key):
\* session-level holds are counted and released one by one by
\* pg_advisory_unlock[_shared]; transaction-level holds end with the
\* transaction; a connection never conflicts with itself.
Keys == {get_resource_id(r) : r \in Resources}
PGFree == [sess_ex |-> 0, sess_sh |-> 0, xact_ex |-> FALSE, xact_sh |-> FALSE]

PGHoldsExclusive(tbl, c, k) == tbl[c][k].sess_ex > 0 \/ tbl[c][k].xact_ex
PGHoldsShared(tbl, c, k) == tbl[c][k].sess_sh > 0 \/ tbl[c][k].xact_sh
PGHolds(tbl, c, k) == PGHoldsExclusive(tbl, c, k) \/ PGHoldsShared(tbl, c, k)

PGConflict(tbl, c, k, shared) ==
    \E o \in Holders \ {c} :
        PGHoldsExclusive(tbl, o, k) \/ (~shared /\ PGHoldsShared(tbl, o, k))

\* The table after the lock function fn has granted key k to connection c.
PGGrant(tbl, c, k, fn) ==
    LET e == tbl[c][k]
        n == IF Contains(fn, "xact")
             THEN IF Contains(fn, "shared") THEN [e EXCEPT !.xact_sh = TRUE]
                  ELSE [e EXCEPT !.xact_ex = TRUE]
             ELSE IF Contains(fn, "shared")
                  THEN [e EXCEPT !.sess_sh = e.sess_sh + 1]
                  ELSE [e EXCEPT !.sess_ex = e.sess_ex + 1]
    IN  [tbl EXCEPT ![c][k] = n]

\* Room for one more counted hold (the model's cap on the counters).
PGRoom(tbl, c, k, fn) ==
    \/ Contains(fn, "xact")
    \/ IF Contains(fn, "shared") THEN tbl[c][k].sess_sh < MaxHold
       ELSE tbl[c][k].sess_ex < MaxHold

\* Variant: an unlock that ends all session-level holds of the key at once.
PGUnlockAll(tbl, c, k, fn) ==
    IF Contains(fn, "shared") THEN [tbl EXCEPT ![c][k].sess_sh = 0]
    ELSE [tbl EXCEPT ![c][k].sess_ex = 0]

\* SELECT pg_advisory_unlock[_shared](k): one session-level hold less, and
\* nothing (a warning) when the connection holds none.
PGUnlock(tbl, c, k, fn) ==
    LET e == tbl[c][k]
    IN  IF Contains(fn, "shared")
        THEN [tbl EXCEPT ![c][k].sess_sh = IF e.sess_sh > 0 THEN e.sess_sh - 1 ELSE 0]
        ELSE [tbl EXCEPT ![c][k].sess_ex = IF e.sess_ex > 0 THEN e.sess_ex - 1 ELSE 0]

\* Commit or rollback: every transaction-level hold of the connection ends.
PGEndTransaction(tbl, c) ==
    [tbl EXCEPT ![c] = [k \in Keys |->
        [tbl[c][k] EXCEPT !.xact_ex = FALSE, !.xact_sh = FALSE]]]

\* Psycopg2PGAdvisoryLock.__init__
Psycopg2PGAdvisoryLock(resource, lock_fn, block, timeout, delay) ==
    [cls |-> "pg",
     resource |-> resource,
     resource_id |-> get_resource_id(resource),
     lock_fn |-> lock_fn,
     unlock_fn |-> get_unlock_fn(lock_fn),
     block |-> block,
     timeout |-> timeout,
     delay |-> delay]

\* AcquirePsycopg2PGAdvisoryLock.__call__
AcquirePsycopg2PGAdvisoryLock(self, resource, block, timeout, lock_type, scope) ==
    Psycopg2PGAdvisoryLock(
        resource,
        get_lock_fn(block, lock_type, scope,
                    Just(self.block), self.lock_type, self.scope),
        block, timeout, self.delay)

\* Variants of the exit test: a loop that never looks at what the backend
\* answered, either way, and one that looks at nothing else.
LoopBreaksAlways(block, is_access) == TRUE
LoopBreaksNever(block, is_access) == FALSE
LoopBreaksOnBlockOnly(block, is_access) == TruthyBool(block)
LoopBreaksOnAccessOnly(block, is_access) == TruthyBool(is_access)

\* The exit test of the polling loop: `if self.block or is_access: break`.
LoopBreaks(block, is_access) == TruthyBool(block) \/ TruthyBool(is_access)

\* Variants of the deadline test: without `not self.timeout or`, with >=
\* for >, and without the comparison of the clock.
DeadlineOnlyWithTimeout(timeout, elapsed_now) ==
    TruthyInt(timeout) /\ elapsed_now > timeout[1]
DeadlinePassedAtEqual(timeout, elapsed_now) ==
    ~TruthyInt(timeout) \/ elapsed_now >= timeout[1]
DeadlineIgnoresClock(timeout, elapsed_now) == ~TruthyInt(timeout)
\* Variant: the clock compared with the magnitude of the timeout.
DeadlineByMagnitude(timeout, elapsed_now) ==
    \/ ~TruthyInt(timeout)
    \/ elapsed_now > (IF timeout[1] < 0 THEN -timeout[1] ELSE timeout[1])

\* `not self.timeout or time.monotonic() - start_time > self.timeout`
DeadlinePassed(timeout, elapsed_now) ==
    ~TruthyInt(timeout) \/ elapsed_now > timeout[1]

\* One pass of the body of `while True:` after the backend call answered
\* is_access: where __enter__ goes next.
LoopStep(block, is_access, timeout, elapsed_now) ==
    IF LoopBreaks(block, is_access) THEN "held"
    ELSE IF DeadlinePassed(timeout, elapsed_now) THEN "raised"
    ELSE "sleep"

\************************************************************ flock on files
\* FileLocker.acquire
FileLock(file, lock_fn, lock_type, resource, timeout, timeout_delay) ==
    [cls |-> "file",
     file |-> file,
     lock_fn |-> lock_fn,
     lock_type |-> lock_type,
     resource |-> resource,
     timeout |-> timeout,
     timeout_delay |-> timeout_delay,
     mode |-> "w+"]

\* Variant: the lock file named without the resource.
FileLockerAcquireOneFile(self, resource, lock_type, timeout) ==
    FileLock(self.path \o self.extension,
             IF lock_type = SHARED THEN "LOCK_SH" ELSE "LOCK_EX",
             lock_type, resource, timeout, self.timeout_delay)

FileLocker_acquire(self, resource, lock_type, timeout) ==
    FileLock(self.path \o resource \o self.extension,
             IF lock_type = SHARED THEN "LOCK_SH" ELSE "LOCK_EX",
             lock_type, resource, timeout, self.timeout_delay)

\* flock(fd, op | LOCK_NB) fails with OSError when another open file
\* description of the same file holds a conflicting lock.
FlockConflict(fds, flk, h, file, lock_fn) ==
    \E o \in Openers \ {h} :
        /\ fds[o] = file
        /\ flk[o] = "LOCK_EX" \/ (lock_fn = "LOCK_EX" /\ flk[o] = "LOCK_SH")

\********************************************* SQL Server application locks
\* PyMSSQLAdvisoryLock.__init__
PyMSSQLAdvisoryLock(resource, lock_mode, lock_owner, timeout) ==
    [cls |-> "mssql",
     resource |-> resource,
     lock_mode |-> lock_mode,
     timeout |-> timeout,
     lock_owner |-> lock_owner,
     database_principal |-> "public"]

\* AcquirePyMSSQLAdvisoryLock.__call__
AcquirePyMSSQLAdvisoryLock(self, resource, block, timeout, lock_type, scope) ==
    PyMSSQLAdvisoryLock(
        resource,
        get_lock_mode(lock_type, self.lock_type, self.lock_mode),
        IF scope = TRANSACTION THEN OWNER_TYPE_TRANSACTION ELSE OWNER_TYPE_SESSION,
        handle_timeout(timeout, block))

\* The lock manager behind sp_getapplock / sp_releaseapplock: holds are kept
\* per session, resource and owner, and counted; only Shared is compatible
\* with Shared; a session never conflicts with itself.
Owners == {OWNER_TYPE_TRANSACTION, OWNER_TYPE_SESSION}
AppFree == [mode |-> None, count |-> 0]

AppLockCompatible(m1, m2) == m1 = "Shared" /\ m2 = "Shared"

AppLockConflict(tbl, c, resource, mode) ==
    \E o \in Holders \ {c} : \E ow \in Owners :
        /\ tbl[o][resource][ow].count > 0
        /\ ~AppLockCompatible(mode, tbl[o][resource][ow].mode)

AppLockGrant(tbl, c, resource, owner, mode) ==
    LET e == tbl[c][resource][owner]
    IN  [tbl EXCEPT ![c][resource][owner] =
            [mode |-> IF e.count > 0 /\ e.mode = "Exclusive" THEN e.mode ELSE mode,
             count |-> e.count + 1]]

AppLockRelease(tbl, c, resource, owner) ==
    LET e == tbl[c][resource][owner]
    IN  [tbl EXCEPT ![c][resource][owner] =
            IF e.count > 1 THEN [e EXCEPT !.count = e.count - 1] ELSE AppFree]

\* Commit or rollback: every Transaction-owned hold of the session ends.
AppLockEndTransaction(tbl, c) ==
    [tbl EXCEPT ![c] = [r \in Resources |->
        [tbl[c][r] EXCEPT ![OWNER_TYPE_TRANSACTION] = AppFree]]]

\* Variant: only the timeout code of sp_getapplock counts as a refusal.
ResultIsTimeout(is_access) == is_access = -1

\* `if is_access < 0: raise ResourceIsLocked`
ResultIsFailure(is_access) == is_access < 0

\************************************************************ shared notions
\* Holder h, asking for what Lock object L asks, finds a conflicting lock of
\* another holder in the given backend tables.
ContendedIn(L, h, pgt, fds, flk, apt) ==
    CASE L.cls = "pg" ->
            PGConflict(pgt, h, L.resource_id, Contains(L.lock_fn, "shared"))
      [] L.cls = "file" -> FlockConflict(fds, flk, h, fds[h], L.lock_fn)
      [] L.cls = "mssql" -> AppLockConflict(apt, h, L.resource, L.lock_mode)
      [] OTHER -> FALSE

Contended(h) == ContendedIn(lock[h], h, pg_locks, fd, flocks, applocks)

\* The Lock object asks for an exclusive / a shared lock.
IsExclusive(L) ==
    CASE L.cls = "pg" -> ~Contains(L.lock_fn, "shared")
      [] L.cls = "file" -> L.lock_fn = "LOCK_EX"
      [] L.cls = "mssql" -> L.lock_mode = "Exclusive"
      [] OTHER -> FALSE

\* The Lock object's hold ends with the transaction of its connection.
IsTransactionScoped(L) ==
    CASE L.cls = "pg" -> Contains(L.lock_fn, "xact")
      [] L.cls = "mssql" -> L.lock_owner = OWNER_TYPE_TRANSACTION
      [] OTHER -> FALSE

\* The backend holds some lock on the resource for holder h.
BackendHolds(h, resource) ==
    CASE backend = "pg" -> PGHolds(pg_locks, h, get_resource_id(resource))
      [] backend = "file" ->
            /\ fd[h] = factory.path \o resource \o factory.extension
            /\ flocks[h] # "LOCK_UN"
      [] backend = "mssql" ->
            \E ow \in Owners : applocks[h][resource][ow].count > 0

\* The Lock object waits under a positive timeout (seconds for the polling
\* loops, milliseconds for sp_getapplock).
HasDeadline(L) ==
    CASE L.cls = "mssql" -> L.timeout > 0
      [] L.cls \in {"pg", "file"} -> L.timeout # Nothing /\ L.timeout[1] > 0
      [] OTHER -> FALSE

\* Elapsed time e lies within the timeout of the Lock object.
WithinTimeout(L, e) ==
    CASE L.cls = "mssql" -> e * 1000 <= L.timeout
      [] OTHER -> e <= L.timeout[1]

\******************************************************************** Init
\* The option values callers pass in one run: explicit non-blocking requests
\* of both types and scopes on two resources; blocking and polling requests
\* with and without a timeout; requests that leave the options unset.
ExplicitArgs ==
    [resources |-> Resources, blocks |-> {Just(FALSE)}, timeouts |-> {Nothing},
     lock_types |-> {EXCLUSIVE, SHARED}, scopes |-> {TRANSACTION, SESSION}]

WaitingArgs ==
    [resources |-> {"r1"}, blocks |-> {Just(TRUE), Just(FALSE)},
     timeouts |-> {Nothing, Just(MaxTimeout)},
     lock_types |-> {EXCLUSIVE, SHARED}, scopes |-> {SESSION}]

NoWaitArgs ==
    [resources |-> {"r1"}, blocks |-> {Just(FALSE)},
     timeouts |-> {Nothing, Just(0), Just(-1)},
     lock_types |-> {EXCLUSIVE, SHARED}, scopes |-> {SESSION}]

UnsetArgs ==
    [resources |-> {"r1"}, blocks |-> {Nothing},
     timeouts |-> {Nothing, Just(MaxTimeout)},
     lock_types |-> {None}, scopes |-> {None}]

\* Variant: a factory whose call leaves a mark in its configured fields.
FactoryRemembersCall(self) ==
    IF "timeout_delay" \in DOMAIN self
    THEN [self EXCEPT !.timeout_delay = @ + 1]
    ELSE [self EXCEPT !.delay = @ + 1]

\* The factory object after __call__ (FileLocker: acquire) has returned:
\* the method reads self.delay, self.block, self.lock_type, self.scope and
\* self.lock_mode and assigns none of them.
FactoryAfterCall(self) == self

\* The factories a deployment may configure (their __init__ arguments); the
\* defaults of __init__ come first.
PGDefaultFactory ==
    [delay |-> Delay, block |-> TRUE, lock_type |-> EXCLUSIVE,
     scope |-> TRANSACTION]

PGFactories ==
    [delay : {Delay}, block : BOOLEAN,
     lock_type : {EXCLUSIVE, SHARED}, scope : {TRANSACTION, SESSION}]

MSDefaultFactory ==
    [delay |-> Delay, block |-> TRUE, lock_type |-> EXCLUSIVE,
     scope |-> TRANSACTION, lock_mode |-> None]

MSFactories ==
    [delay : {Delay}, block : BOOLEAN,
     lock_type : {EXCLUSIVE, SHARED}, scope : {TRANSACTION, SESSION},
     lock_mode : {None, "Shared"}]

FileLockers ==
    [path : {"/locks/"}, extension : {".lock"}, timeout_delay : {Delay}]

\* No decorated method is being called.
NoCall == [pc |-> "none"]

\* None of the selector and codec functions has been called.
NothingCalled == [fn |-> None]

\* No nested with statements are being executed.
NotNested ==
    [pc |-> "idle", outer |-> NoLock, inner |-> NoLock, unlocks |-> <<>>,
     raised |-> FALSE]

\* The cleaner is not running.
CleanerIdle == [pc |-> "idle", files_to_remove |-> {}, file |-> None]

\* The configured defaults matter only to calls that leave an option unset.
Init ==
    /\ backend \in {"pg", "file", "mssql"}
    /\ args \in {ExplicitArgs, WaitingArgs, NoWaitArgs, UnsetArgs}
    /\ factory \in CASE backend = "pg" ->
                            IF args = UnsetArgs THEN PGFactories
                            ELSE {PGDefaultFactory}
                     [] backend = "mssql" ->
                            IF args = UnsetArgs THEN MSFactories
                            ELSE {MSDefaultFactory}
                     [] backend = "file" -> FileLockers
    /\ lock = [h \in Holders |-> NoLock]
    /\ pc = [h \in Holders |-> "idle"]
    /\ elapsed = [h \in Holders |-> 0]
    /\ wake_at = [h \in Holders |-> 0]
    /\ pg_locks = [h \in Holders |-> [k \in Keys |-> PGFree]]
    /\ fd = [o \in Openers |-> None]
    /\ flocks = [o \in Openers |-> "LOCK_UN"]
    /\ dir = {}
    /\ cleaner = CleanerIdle
    /\ nest = NotNested
    /\ applocks = [h \in Holders |-> [r \in Resources |-> [ow \in Owners |-> AppFree]]]
    /\ outcome = [h \in Holders |-> None]
    /\ result = [h \in Holders |-> None]
    /\ exits = [h \in Holders |-> 0]
    /\ grants = [h \in Holders |-> 0]
    /\ free_seen = [h \in Holders |-> FALSE]
    /\ txn_ended = [h \in Holders |-> FALSE]
    /\ request = [h \in Holders |-> NoRequest]
    /\ attempts = [h \in Holders |-> 0]
    /\ error = [h \in Holders |-> NoError]
    /\ fault = [h \in Holders |-> None]
    /\ wrapper = NoCall
    /\ call = NothingCalled
    /\ answer = [h \in Holders |-> Nothing]
    /\ issued = [h \in Holders |-> {}]

\*************************************************************** bookkeeping
\* free_seen follows the states an acquire with a timeout passes through.
Observe ==
    free_seen' = [h \in Holders |->
        IF pc'[h] \in {"attempt", "sleep"} /\ HasDeadline(lock'[h])
        THEN \/ InEnter(h) /\ free_seen[h]
             \/ /\ WithinTimeout(lock'[h], elapsed'[h])
                /\ ~ContendedIn(lock'[h], h, pg_locks', fd', flocks', applocks')
        ELSE FALSE]

\* `with factory(...) as lock:` reaches Lock.__enter__: start_time is read.
StartEnter(h) ==
    /\ pc' = [pc EXCEPT ![h] = "attempt"]
    /\ elapsed' = [elapsed EXCEPT ![h] = 0]
    /\ UNCHANGED <<wake_at, grants, attempts, error, exits, outcome, result, txn_ended>>

\* The calls __enter__ of a Lock makes on its connection in one pass: the
\* cursor executes SELECT lock_fn(resource_id), or EXEC sp_getapplock. A
\* FileLock has no connection.
EnterCalls(L) ==
    CASE L.cls = "pg" -> {L.lock_fn}
      [] L.cls = "mssql" -> {"sp_getapplock"}
      [] OTHER -> {}

\* Variant: an __exit__ that commits after its release.
ExitCallsAndCommit(L) ==
    CASE L.cls = "pg" -> (IF L.unlock_fn # None THEN {L.unlock_fn} ELSE {})
                         \cup {"commit"}
      [] L.cls = "mssql" -> {"sp_releaseapplock", "commit"}
      [] OTHER -> {}

\* The calls __exit__ of a Lock makes on its connection: the cursor executes
\* SELECT unlock_fn(resource_id) if there is an unlock function, or
\* EXEC sp_releaseapplock.
ExitCalls(L) ==
    CASE L.cls = "pg" -> IF L.unlock_fn # None THEN {L.unlock_fn} ELSE {}
      [] L.cls = "mssql" -> {"sp_releaseapplock"}
      [] OTHER -> {}

\* Variant: the error names the lock file where there is one.
RaisedErrorWithFile(L) ==
    ResourceIsLocked(IF L.cls = "file" THEN L.file ELSE L.resource)

\* `raise errors.ResourceIsLocked(resource=self.resource)`
RaisedError(L) == ResourceIsLocked(L.resource)

\* One pass of a loop of __enter__ is over: it sleeps, or __enter__ is left
\* by returning or by raising.
EndAttempt(h, next, delay, granted) ==
    /\ pc' = [pc EXCEPT ![h] = next]
    /\ wake_at' = [wake_at EXCEPT ![h] =
                      IF next = "sleep" THEN elapsed[h] + delay ELSE 0]
    /\ grants' = [grants EXCEPT ![h] = IF granted THEN @ + 1 ELSE @]
    /\ attempts' = [attempts EXCEPT ![h] = @ + 1]
    /\ error' = [error EXCEPT ![h] =
                    IF next = "raised" THEN RaisedError(lock[h]) ELSE @]
    /\ issued' = [issued EXCEPT ![h] = @ \cup EnterCalls(lock[h])]
    /\ UNCHANGED elapsed

\* Variant: an __exit__ that returns a true value.
ExitReturnsTrue == Just(TRUE)

\* __exit__ of every Lock ends without a return statement: it returns None.
ExitReturn == Nothing

\* The with statement after the body: an exception of the body reaches the
\* caller unless __exit__ returned a true value.
WithResult(body_outcome, exit_value) ==
    IF body_outcome = "raise" /\ TruthyBool(exit_value) THEN "suppressed"
    ELSE body_outcome

\* __exit__ has run: the with statement ends.
EndExit(h, res) ==
    /\ exits' = [exits EXCEPT ![h] = @ + 1]
    /\ result' = [result EXCEPT ![h] = res]
    /\ pc' = [pc EXCEPT ![h] = "done"]
    /\ issued' = [issued EXCEPT ![h] = @ \cup ExitCalls(lock[h])]

\********************************************************* PostgreSQL steps
\* with locker(connection, resource, block, timeout, lock_type, scope):
\* the factory builds the Lock and __enter__ starts.
PGEnter(h) ==
    /\ backend = "pg"
    /\ pc[h] = "idle"
    /\ \E resource \in args.resources, block \in args.blocks,
          timeout \in args.timeouts, lock_type \in args.lock_types,
          scope \in args.scopes :
          /\ lock' = [lock EXCEPT ![h] =
                AcquirePsycopg2PGAdvisoryLock(factory, resource, block, timeout,
                                              lock_type, scope)]
          /\ request' = [request EXCEPT ![h] =
                [resource |-> resource, block |-> block, timeout |-> timeout,
                 lock_type |-> lock_type, scope |-> scope]]
    /\ factory' = FactoryAfterCall(factory)
    /\ StartEnter(h)
    /\ UNCHANGED <<nest, dir, cleaner, issued, backend, wrapper, call, fault, answer, args, pg_locks, fd, flocks, applocks>>
    /\ Observe

\* One pass of the loop of __enter__: SELECT lock_fn(resource_id), then break,
\* raise or sleep.  A try function answers at once; the others answer (void)
\* only once the lock is granted.
PGAttempt(h) ==
    /\ backend = "pg"
    /\ pc[h] = "attempt"
    /\ LET L == lock[h]
           k == L.resource_id
           try == Contains(L.lock_fn, "try")
           granted == ~PGConflict(pg_locks, h, k, Contains(L.lock_fn, "shared"))
           is_access == IF try THEN Just(granted) ELSE Nothing
       IN  /\ try \/ granted
           /\ granted => PGRoom(pg_locks, h, k, L.lock_fn)
           /\ pg_locks' = IF granted THEN PGGrant(pg_locks, h, k, L.lock_fn)
                          ELSE pg_locks
           /\ answer' = [answer EXCEPT ![h] = is_access]
           /\ EndAttempt(h, LoopStep(L.block, is_access, L.timeout, elapsed[h]),
                         L.delay, granted)
    /\ UNCHANGED <<nest, dir, cleaner, backend, wrapper, call, fault, args, factory, lock, request, fd, flocks, applocks,
                   outcome, result, exits, txn_ended>>
    /\ Observe

\* __exit__: SELECT unlock_fn(resource_id) when there is an unlock function.
PGExit(h) ==
    /\ backend = "pg"
    /\ pc[h] = "exiting"
    /\ LET L == lock[h]
       IN  pg_locks' = IF L.unlock_fn # None
                       THEN PGUnlock(pg_locks, h, L.resource_id, L.unlock_fn)
                       ELSE pg_locks
    /\ EndExit(h, WithResult(outcome[h], ExitReturn))
    /\ UNCHANGED <<nest, dir, cleaner, backend, wrapper, call, fault, answer, args, factory, lock, request, elapsed, wake_at, fd, flocks,
                   applocks, outcome, grants, attempts, error, txn_ended>>
    /\ Observe

\***************************************************************** file steps
\* with locker.acquire(resource, lock_type, timeout): the FileLocker builds
\* the FileLock; __enter__ reads start_time and opens the lock file.
FileEnter(h) ==
    /\ backend = "file"
    /\ pc[h] = "idle"
    /\ \E resource \in args.resources, lock_type \in args.lock_types,
          timeout \in args.timeouts :
          LET L == FileLocker_acquire(factory, resource, lock_type, timeout)
          IN  /\ lock' = [lock EXCEPT ![h] = L]
              /\ fd' = [fd EXCEPT ![h] = L.file]
              /\ dir' = dir \cup {L.file}
              /\ request' = [request EXCEPT ![h] =
                    [NoRequest EXCEPT !.resource = resource,
                                      !.lock_type = lock_type,
                                      !.timeout = timeout]]
    /\ factory' = FactoryAfterCall(factory)
    /\ StartEnter(h)
    /\ UNCHANGED <<nest, cleaner, issued, backend, wrapper, call, fault, answer, args, pg_locks, flocks, applocks>>
    /\ Observe

\* The loop of __enter__ after flock(): break, or in `except OSError:` raise
\* or sleep.
FileLoopStep(granted, timeout, elapsed_now) ==
    IF granted THEN "held"
    ELSE IF ~TruthyInt(timeout) \/ elapsed_now > timeout[1] THEN "raised"
    ELSE "sleep"

\* One pass of the loop of __enter__: flock(fd, lock_fn | LOCK_NB).
FileAttempt(h) ==
    /\ backend = "file"
    /\ pc[h] = "attempt"
    /\ LET L == lock[h]
           granted == ~FlockConflict(fd, flocks, h, fd[h], L.lock_fn)
       IN  /\ flocks' = IF granted THEN [flocks EXCEPT ![h] = L.lock_fn]
                        ELSE flocks
           /\ EndAttempt(h, FileLoopStep(granted, L.timeout, elapsed[h]),
                         L.timeout_delay, granted)
    /\ UNCHANGED <<nest, dir, cleaner, backend, wrapper, call, fault, answer, args, factory, lock, request, pg_locks, fd, applocks,
                   outcome, result, exits, txn_ended>>
    /\ Observe

\* __exit__: flock(fd, LOCK_UN); fd.close().
FileExit(h) ==
    /\ backend = "file"
    /\ pc[h] = "exiting"
    /\ flocks' = [flocks EXCEPT ![h] = "LOCK_UN"]
    /\ fd' = [fd EXCEPT ![h] = None]
    /\ EndExit(h, WithResult(outcome[h], ExitReturn))
    /\ UNCHANGED <<nest, dir, cleaner, backend, wrapper, call, fault, answer, args, factory, lock, request, elapsed, wake_at, pg_locks,
                   applocks, outcome, grants, attempts, error, txn_ended>>
    /\ Observe

\********************************************************** SQL Server steps
\* with locker(connection, resource, block, timeout, lock_type, scope):
\* the factory builds the Lock and __enter__ sends sp_getapplock.
MSEnter(h) ==
    /\ backend = "mssql"
    /\ pc[h] = "idle"
    /\ \E resource \in args.resources, block \in args.blocks,
          timeout \in args.timeouts, lock_type \in args.lock_types,
          scope \in args.scopes :
          /\ lock' = [lock EXCEPT ![h] =
                AcquirePyMSSQLAdvisoryLock(factory, resource, block, timeout,
                                           lock_type, scope)]
          /\ request' = [request EXCEPT ![h] =
                [resource |-> resource, block |-> block, timeout |-> timeout,
                 lock_type |-> lock_type, scope |-> scope]]
    /\ factory' = FactoryAfterCall(factory)
    /\ StartEnter(h)
    /\ UNCHANGED <<nest, dir, cleaner, issued, backend, wrapper, call, fault, answer, args, pg_locks, fd, flocks, applocks>>
    /\ Observe

\* sp_getapplock has waited its @LockTimeout (milliseconds; 0 does not wait,
\* a negative value waits for ever) without being granted the lock.
AppLockTimedOut(h) ==
    /\ lock[h].timeout >= 0
    /\ elapsed[h] * 1000 >= lock[h].timeout
    /\ AppLockConflict(applocks, h, lock[h].resource, lock[h].lock_mode)

\* sp_getapplock answers: 0 (granted at once), 1 (granted after a wait) or
\* -1 (timed out); __enter__ raises on a negative answer.
MSAttempt(h) ==
    /\ backend = "mssql"
    /\ pc[h] = "attempt"
    /\ LET L == lock[h]
       IN  \/ /\ ~AppLockConflict(applocks, h, L.resource, L.lock_mode)
              /\ applocks[h][L.resource][L.lock_owner].count < MaxHold
              /\ applocks' = AppLockGrant(applocks, h, L.resource,
                                          L.lock_owner, L.lock_mode)
              /\ \E is_access \in {0, 1} :
                    /\ answer' = [answer EXCEPT ![h] = Just(is_access)]
                    /\ EndAttempt(h, IF ResultIsFailure(is_access)
                                     THEN "raised" ELSE "held", 0, TRUE)
           \/ /\ AppLockTimedOut(h)
              /\ applocks' = applocks
              /\ answer' = [answer EXCEPT ![h] = Just(-1)]
              /\ EndAttempt(h, IF ResultIsFailure(-1) THEN "raised" ELSE "held",
                            0, FALSE)
    /\ UNCHANGED <<nest, dir, cleaner, backend, wrapper, call, fault, args, factory, lock, request, pg_locks, fd, flocks,
                   outcome, result, exits, txn_ended>>
    /\ Observe

\* Variant: a release that always names the Session owner.
ReleaseCallAsSession(L) ==
    [resource |-> L.resource, owner |-> OWNER_TYPE_SESSION]

\* The parameters of EXEC sp_releaseapplock @Resource, @LockOwner.
ReleaseCall(L) == [resource |-> L.resource, owner |-> L.lock_owner]

\* __exit__: sp_releaseapplock(resource, owner); the procedure fails, and the
\* driver raises, when the session does not hold the lock.
MSExit(h) ==
    /\ backend = "mssql"
    /\ pc[h] = "exiting"
    /\ LET L == lock[h]
           release == ReleaseCall(L)
           is_held == applocks[h][release.resource][release.owner].count > 0
       IN  /\ applocks' = IF is_held
                          THEN AppLockRelease(applocks, h, release.resource,
                                              release.owner)
                          ELSE applocks
           /\ EndExit(h, IF is_held THEN WithResult(outcome[h], ExitReturn)
                         ELSE "release_error")
    /\ UNCHANGED <<nest, dir, cleaner, backend, wrapper, call, fault, answer, args, factory, lock, request, elapsed, wake_at, pg_locks, fd,
                   flocks, outcome, grants, attempts, error, txn_ended>>
    /\ Observe

\************************************************************** common steps
\* time.sleep(delay) returns once the delay has passed.
\* Variant: a sleep that returns before its delay is over.
WakeEarly(h) ==
    /\ pc[h] = "sleep"
    /\ pc' = [pc EXCEPT ![h] = "attempt"]
    /\ wake_at' = [wake_at EXCEPT ![h] = 0]
    /\ UNCHANGED <<nest, dir, cleaner, issued, backend, wrapper, call, fault, answer, args, factory, lock, request, elapsed, pg_locks, fd, flocks,
                   applocks, outcome, result, exits, grants, attempts, error, txn_ended>>
    /\ Observe

Wake(h) ==
    /\ pc[h] = "sleep"
    /\ elapsed[h] >= wake_at[h]
    /\ pc' = [pc EXCEPT ![h] = "attempt"]
    /\ wake_at' = [wake_at EXCEPT ![h] = 0]
    /\ UNCHANGED <<nest, dir, cleaner, issued, backend, wrapper, call, fault, answer, args, factory, lock, request, elapsed, pg_locks, fd, flocks,
                   applocks, outcome, result, exits, grants, attempts, error, txn_ended>>
    /\ Observe

\* The backend call of __enter__ does not answer yet: a native blocking
\* PostgreSQL function, or sp_getapplock with a timeout it has not used up,
\* waits for a conflicting lock to go.
Waiting(h) ==
    /\ pc[h] = "attempt"
    /\ Contended(h)
    /\ CASE backend = "pg" -> ~Contains(lock[h].lock_fn, "try")
         [] backend = "mssql" -> ~AppLockTimedOut(h)
         [] OTHER -> FALSE

\* Time passes for a holder that waits under a timeout, in time.sleep() or
\* in a backend call; the other statements of __enter__ take no time.
Tick(h) ==
    /\ pc[h] = "sleep" \/ Waiting(h)
    /\ HasDeadline(lock[h])
    /\ elapsed[h] < MaxElapsed
    /\ elapsed' = [elapsed EXCEPT ![h] = @ + 1]
    /\ UNCHANGED <<nest, dir, cleaner, issued, backend, wrapper, call, fault, answer, args, factory, lock, request, pc, wake_at, pg_locks, fd,
                   flocks, applocks, outcome, result, exits, grants, attempts, error, txn_ended>>
    /\ Observe

\* The protected body ends, by returning or by raising.
Body(h) ==
    /\ pc[h] = "held"
    /\ \E how \in {"return", "raise"} :
          outcome' = [outcome EXCEPT ![h] = how]
    /\ pc' = [pc EXCEPT ![h] = "exiting"]
    /\ UNCHANGED <<nest, dir, cleaner, issued, backend, wrapper, call, fault, answer, args, factory, lock, request, elapsed, wake_at, pg_locks, fd,
                   flocks, applocks, result, exits, grants, attempts, error, txn_ended>>
    /\ Observe

\* The with statement is over (or __enter__ raised): the caller goes on and
\* the Lock object is dropped.
Return(h) ==
    /\ pc[h] \in {"done", "raised"}
    /\ pc' = [pc EXCEPT ![h] = "idle"]
    /\ lock' = [lock EXCEPT ![h] = NoLock]
    /\ fd' = [fd EXCEPT ![h] = None]
    /\ outcome' = [outcome EXCEPT ![h] = None]
    /\ result' = [result EXCEPT ![h] = None]
    /\ exits' = [exits EXCEPT ![h] = 0]
    /\ txn_ended' = [txn_ended EXCEPT ![h] = FALSE]
    /\ elapsed' = [elapsed EXCEPT ![h] = 0]
    /\ grants' = [grants EXCEPT ![h] = 0]
    /\ request' = [request EXCEPT ![h] = NoRequest]
    /\ attempts' = [attempts EXCEPT ![h] = 0]
    /\ error' = [error EXCEPT ![h] = NoError]
    /\ fault' = [fault EXCEPT ![h] = None]
    /\ answer' = [answer EXCEPT ![h] = Nothing]
    /\ issued' = [issued EXCEPT ![h] = {}]
    /\ UNCHANGED <<nest, dir, cleaner, backend, wrapper, call, args, factory, wake_at, pg_locks, flocks,
                   applocks>>
    /\ Observe

\* The caller commits or rolls back the transaction of its connection,
\* between two contexts, inside the protected body or right after the with
\* statement.
EndTransaction(h) ==
    /\ backend \in {"pg", "mssql"}
    /\ pc[h] \in {"idle", "held", "done"}
    /\ pg_locks' = IF backend = "pg" THEN PGEndTransaction(pg_locks, h)
                   ELSE pg_locks
    /\ applocks' = IF backend = "mssql" THEN AppLockEndTransaction(applocks, h)
                   ELSE applocks
    /\ txn_ended' = [txn_ended EXCEPT ![h] = pc[h] \in {"held", "done"}]
    /\ UNCHANGED <<nest, dir, cleaner, issued, backend, wrapper, call, fault, answer, args, factory, lock, request, pc, elapsed, wake_at, fd,
                   flocks, outcome, result, exits, grants, attempts, error>>
    /\ Observe

Next ==
    \E h \in Holders :
        \/ PGEnter(h) \/ PGAttempt(h) \/ PGExit(h)
        \/ FileEnter(h) \/ FileAttempt(h) \/ FileExit(h)
        \/ MSEnter(h) \/ MSAttempt(h) \/ MSExit(h)
        \/ Wake(h) \/ Tick(h) \/ Body(h) \/ Return(h) \/ EndTransaction(h)

Spec == Init /\ [][Next]_vars

\********************************************* failures of the backend calls
\* flock() fails with an OSError that is no EWOULDBLOCK (ENOLCK, EIO, ...):
\* `except OSError:` takes it for a refusal.
FileAttemptFault(h) ==
    /\ backend = "file"
    /\ pc[h] = "attempt"
    /\ fault' = [fault EXCEPT ![h] = "OSError"]
    /\ EndAttempt(h, FileLoopStep(FALSE, lock[h].timeout, elapsed[h]),
                  lock[h].timeout_delay, FALSE)
    /\ UNCHANGED <<nest, dir, cleaner, backend, wrapper, call, answer, args, factory, lock,
                   request, pg_locks, fd, flocks, applocks, outcome, result,
                   exits, txn_ended>>
    /\ Observe

\* cursor.execute() or fetchone() of a database Lock raises the driver's
\* error (connection lost, statement refused): no except clause is in its
\* way out of __enter__.
CursorFault(h) ==
    /\ pc[h] = "attempt"
    /\ fault' = [fault EXCEPT ![h] = "OperationalError"]
    /\ pc' = [pc EXCEPT ![h] = "raised"]
    /\ error' = [error EXCEPT ![h] = [exc |-> "OperationalError",
                                      resource |-> None]]
    /\ attempts' = [attempts EXCEPT ![h] = @ + 1]
    /\ issued' = [issued EXCEPT ![h] = @ \cup EnterCalls(lock[h])]
    /\ UNCHANGED <<nest, dir, cleaner, backend, wrapper, call, answer, args, factory, lock,
                   request, elapsed, wake_at, pg_locks, fd, flocks, applocks,
                   outcome, result, exits, grants, txn_ended>>
    /\ Observe

\* sp_getapplock answers -2 (the request was cancelled), -3 (chosen as a
\* deadlock victim) or -999 (parameter validation or other call error): no
\* lock is granted.
MSAttemptRefused(h) ==
    /\ backend = "mssql"
    /\ pc[h] = "attempt"
    /\ \E is_access \in {-2, -3, -999} :
          /\ answer' = [answer EXCEPT ![h] = Just(is_access)]
          /\ fault' = [fault EXCEPT ![h] =
                          IF is_access = -999 THEN "ParameterError" ELSE @]
          /\ EndAttempt(h, IF ResultIsFailure(is_access) THEN "raised"
                           ELSE "held", 0, FALSE)
    /\ UNCHANGED <<nest, dir, cleaner, backend, wrapper, call, args, factory, lock, request,
                   pg_locks, fd, flocks, applocks, outcome, result, exits,
                   txn_ended>>
    /\ Observe

PGAttemptFault(h) == backend = "pg" /\ CursorFault(h)

MSAttemptFault(h) == backend = "mssql" /\ CursorFault(h)

FaultNext ==
    \/ Next
    \/ \E h \in Holders :
          \/ FileAttemptFault(h) \/ PGAttemptFault(h) \/ MSAttemptFault(h)
          \/ MSAttemptRefused(h)

FaultSpec == Init /\ [][FaultNext]_vars

\*************************************************** a second call of __exit__
\* The caller invokes __exit__ of a Lock whose context it has left already.
\* PostgreSQL: SELECT unlock_fn(resource_id) once more; the function takes a
\* hold away if the connection has one left and answers false if not.
PGExitAgain(h) ==
    /\ backend = "pg"
    /\ pc[h] = "done" /\ exits[h] = 1
    /\ LET L == lock[h]
       IN  pg_locks' = IF L.unlock_fn # None
                       THEN PGUnlock(pg_locks, h, L.resource_id, L.unlock_fn)
                       ELSE pg_locks
    /\ EndExit(h, result[h])
    /\ UNCHANGED <<nest, dir, cleaner, backend, wrapper, call, fault, answer, args, factory, lock,
                   request, elapsed, wake_at, fd, flocks, applocks, outcome,
                   grants, attempts, error, txn_ended>>
    /\ Observe

\* File: flock(self.fd, LOCK_UN) on the file object that the first __exit__
\* closed raises ValueError.
FileExitAgain(h) ==
    /\ backend = "file"
    /\ pc[h] = "done" /\ exits[h] = 1
    /\ fd[h] = None
    /\ EndExit(h, "ValueError")
    /\ UNCHANGED <<nest, dir, cleaner, backend, wrapper, call, fault, answer, args, factory, lock,
                   request, elapsed, wake_at, pg_locks, fd, flocks, applocks,
                   outcome, grants, attempts, error, txn_ended>>
    /\ Observe

\* SQL Server: sp_releaseapplock once more; it releases a hold the session
\* has left on the resource for the owner and fails if there is none.
MSExitAgain(h) ==
    /\ backend = "mssql"
    /\ pc[h] = "done" /\ exits[h] = 1
    /\ LET L == lock[h]
           release == ReleaseCall(L)
           is_held == applocks[h][release.resource][release.owner].count > 0
       IN  /\ applocks' = IF is_held
                          THEN AppLockRelease(applocks, h, release.resource,
                                              release.owner)
                          ELSE applocks
           /\ EndExit(h, IF is_held THEN result[h] ELSE "release_error")
    /\ UNCHANGED <<nest, dir, cleaner, backend, wrapper, call, fault, answer, args, factory, lock,
                   request, elapsed, wake_at, pg_locks, fd, flocks, outcome,
                   grants, attempts, error, txn_ended>>
    /\ Observe

ExitAgainNext ==
    \/ Next
    \/ \E h \in Holders : PGExitAgain(h) \/ FileExitAgain(h) \/ MSExitAgain(h)

ExitAgainSpec == Init /\ [][ExitAgainNext]_vars

\******************************************* nested Locks on one connection
\* with locker(conn, r, scope=SESSION): with locker(conn, r, scope=SESSION):
\* ... on the connection of the first holder, which does nothing else; the
\* other holders contend as before.
NestingConnection == 1

\* The factory call and __enter__ of a PostgreSQL Lock asked without a
\* timeout: one query; a try function that answers false makes __enter__
\* raise, a blocking function answers once the lock is granted.
NestedEnter(L, entered, refused) ==
    LET c == NestingConnection
        granted == ~PGConflict(pg_locks, c, L.resource_id,
                               Contains(L.lock_fn, "shared"))
        next == LoopStep(L.block,
                         IF Contains(L.lock_fn, "try") THEN Just(granted)
                         ELSE Nothing,
                         L.timeout, 0)
    IN  /\ Contains(L.lock_fn, "try") \/ granted
        /\ pg_locks' = IF granted
                       THEN PGGrant(pg_locks, c, L.resource_id, L.lock_fn)
                       ELSE pg_locks
        /\ nest' = IF next = "held" THEN entered ELSE refused

\* __exit__ of a Lock of the nesting caller.
NestedExit(L) ==
    IF L.unlock_fn # None
    THEN PGUnlock(pg_locks, NestingConnection, L.resource_id, L.unlock_fn)
    ELSE pg_locks

\* The frame of the steps of the nesting caller.
NestedStep ==
    /\ backend = "pg"
    /\ pc[NestingConnection] = "idle"
    /\ UNCHANGED <<backend, args, factory, lock, pc, elapsed, wake_at, fd,
                   flocks, applocks, outcome, result, exits, grants,
                   txn_ended, request, attempts, error, fault, wrapper, call,
                   answer, issued, dir, cleaner>>
    /\ Observe

NestedEnterOuter ==
    /\ nest.pc = "idle"
    /\ \E resource \in args.resources, block \in {Just(TRUE), Just(FALSE)},
          lock_type \in args.lock_types :
          LET L == AcquirePsycopg2PGAdvisoryLock(factory, resource, block,
                                                Nothing, lock_type, SESSION)
          IN  NestedEnter(L, [nest EXCEPT !.pc = "outer", !.outer = L],
                             [nest EXCEPT !.pc = "after_outer", !.outer = L,
                                          !.raised = TRUE])
    /\ NestedStep

NestedEnterInner ==
    /\ nest.pc = "outer"
    /\ \E block \in {Just(TRUE), Just(FALSE)}, lock_type \in args.lock_types :
          LET L == AcquirePsycopg2PGAdvisoryLock(factory, nest.outer.resource,
                                                block, Nothing, lock_type,
                                                SESSION)
          IN  NestedEnter(L, [nest EXCEPT !.pc = "inner", !.inner = L],
                             [nest EXCEPT !.pc = "after_inner", !.inner = L,
                                          !.raised = TRUE])
    /\ NestedStep

\* The inner with statement ends: __exit__ of the inner Lock.
NestedExitInner ==
    /\ nest.pc = "inner"
    /\ pg_locks' = NestedExit(nest.inner)
    /\ nest' = [nest EXCEPT !.pc = "after_inner",
                            !.unlocks = @ \o (IF nest.inner.unlock_fn # None
                                              THEN <<nest.inner.unlock_fn>>
                                              ELSE <<>>)]
    /\ NestedStep

\* The outer with statement ends, or is left by the exception of the inner
\* __enter__: __exit__ of the outer Lock.
NestedExitOuter ==
    /\ nest.pc = "after_inner"
    /\ pg_locks' = NestedExit(nest.outer)
    /\ nest' = [nest EXCEPT !.pc = "after_outer",
                            !.unlocks = @ \o (IF nest.outer.unlock_fn # None
                                              THEN <<nest.outer.unlock_fn>>
                                              ELSE <<>>)]
    /\ NestedStep

NestedReturn ==
    /\ nest.pc = "after_outer"
    /\ nest' = NotNested
    /\ UNCHANGED pg_locks
    /\ NestedStep

NestedInit == Init /\ backend = "pg" /\ args = ExplicitArgs

NestedNext ==
    \/ \E h \in Holders \ {NestingConnection} :
          \/ PGEnter(h) \/ PGAttempt(h) \/ PGExit(h)
          \/ Body(h) \/ Return(h) \/ EndTransaction(h)
    \/ NestedEnterOuter
    \/ NestedEnterInner
    \/ NestedExitInner
    \/ NestedExitOuter
    \/ NestedReturn

NestedSpec == NestedInit /\ [][NestedNext]_vars

\************************************************************* file cleaner
\* The name, which no path leads to, of a file removed while it is open:
\* the first such name of the file that no file object is open on.
Orphan(fds, file) ==
    LET name(n) == file \o "~" \o ToString(n)
        used(n) == \E o \in Openers : fds[o] = name(n)
    IN  name(CHOOSE n \in 1..(NumHolders + 2) :
                 ~used(n) /\ \A m \in 1..(n - 1) : used(m))

\* os.remove(file): the path is gone from the directory; the file objects
\* that are open on the file stay open on it, with their locks.
Remove(fds, file) ==
    [o \in Openers |-> IF fds[o] = file THEN Orphan(fds, file) ELSE fds[o]]

\* The frame of the steps of the cleaner.
CleanerStep ==
    /\ backend = "file"
    /\ UNCHANGED <<backend, args, factory, lock, pc, elapsed, wake_at,
                   pg_locks, applocks, outcome, result, exits, grants,
                   txn_ended, request, attempts, error, fault, wrapper, call,
                   answer, issued, nest>>
    /\ Observe

\* __remove_files: files_to_remove = [... for f_name in os.listdir(path)
\* if f_name.endswith(extension)]; every lock file has the extension.
CleanerListDir ==
    /\ cleaner.pc = "idle"
    /\ cleaner' = [pc |-> "for", files_to_remove |-> dir, file |-> None]
    /\ UNCHANGED <<fd, flocks, dir>>
    /\ CleanerStep

\* `for file in files_to_remove:` `fd = open(file, 'w+')`: the file is
\* created if it is not there; the file object fd was bound to before is
\* dropped, and its lock with it.
CleanerOpen ==
    /\ cleaner.pc = "for"
    /\ \E file \in cleaner.files_to_remove :
          /\ cleaner' = [pc |-> "flock",
                         files_to_remove |-> cleaner.files_to_remove \ {file},
                         file |-> file]
          /\ fd' = [fd EXCEPT ![Cleaner] = file]
          /\ dir' = dir \cup {file}
    /\ flocks' = [flocks EXCEPT ![Cleaner] = "LOCK_UN"]
    /\ CleanerStep

\* Variant: a cleaner that removes the file whatever flock() said.
AfterFlockRemoves(locked) == "remove"

\* flock() in the try block: os.remove(file) comes next if it returned, and
\* `except OSError: pass` goes on with the next file if it raised.
AfterFlock(locked) == IF locked THEN "remove" ELSE "for"

\* fcntl.flock(fd, fcntl.LOCK_EX | fcntl.LOCK_NB)
CleanerFlock ==
    /\ cleaner.pc = "flock"
    /\ LET locked == ~FlockConflict(fd, flocks, Cleaner, fd[Cleaner], "LOCK_EX")
       IN  /\ flocks' = IF locked THEN [flocks EXCEPT ![Cleaner] = "LOCK_EX"]
                        ELSE flocks
           /\ cleaner' = [cleaner EXCEPT !.pc = AfterFlock(locked)]
    /\ UNCHANGED <<fd, dir>>
    /\ CleanerStep

\* os.remove(file)
CleanerRemove ==
    /\ cleaner.pc = "remove"
    /\ dir' = dir \ {cleaner.file}
    /\ fd' = Remove(fd, cleaner.file)
    /\ cleaner' = [cleaner EXCEPT !.pc = "for"]
    /\ UNCHANGED flocks
    /\ CleanerStep

\* The for loop is over and __remove_files returns: fd is dropped.
CleanerReturn ==
    /\ cleaner.pc = "for"
    /\ cleaner.files_to_remove = {}
    /\ cleaner' = CleanerIdle
    /\ fd' = [fd EXCEPT ![Cleaner] = None]
    /\ flocks' = [flocks EXCEPT ![Cleaner] = "LOCK_UN"]
    /\ UNCHANGED dir
    /\ CleanerStep

\* FileLocks and the cleaner of their FileLocker, run_cleaner() called once
\* or in the background.
CleanerInit == Init /\ backend = "file"

CleanerNext ==
    \/ \E h \in Holders :
          \/ FileEnter(h) \/ FileAttempt(h) \/ FileExit(h)
          \/ Wake(h) \/ Tick(h) \/ Body(h) \/ Return(h)
    \/ CleanerListDir
    \/ CleanerOpen
    \/ CleanerFlock
    \/ CleanerRemove
    \/ CleanerReturn

CleanerSpec == CleanerInit /\ [][CleanerNext]_vars

\* The backend answers a call it can answer: a PostgreSQL function or
\* sp_getapplock that waits for a lock returns once no conflicting lock is
\* left.
BackendAnswers ==
    \A h \in Holders : WF_vars(PGAttempt(h)) /\ WF_vars(MSAttempt(h))

\* The polling loops alone: PostgreSQL and file Locks asked with and without
\* a timeout.  The backend answers the calls it can answer, time.sleep()
\* returns once its delay is over and the monotonic clock goes on.
PollingInit == Init /\ backend \in {"pg", "file"} /\ args = WaitingArgs

PollingNext ==
    \E h \in Holders :
        \/ PGEnter(h) \/ PGAttempt(h) \/ PGExit(h)
        \/ FileEnter(h) \/ FileAttempt(h) \/ FileExit(h)
        \/ Wake(h) \/ Tick(h) \/ Body(h) \/ Return(h) \/ EndTransaction(h)

LoopGoesOn ==
    \A h \in Holders :
        /\ WF_vars(PGAttempt(h)) /\ WF_vars(FileAttempt(h))
        /\ WF_vars(Wake(h)) /\ WF_vars(Tick(h))

PollingSpec == PollingInit /\ [][PollingNext]_vars /\ LoopGoesOn

\******************************************* selector and codec functions
\* The legacy tables of classic/locks/postgres_locker.py.
TRY_QUERY == "TRY"
WAIT_QUERY == "WAIT"

LOCK_FN_QUERY_TYPE_MAP ==
    [pg_advisory_lock |-> WAIT_QUERY,
     pg_advisory_lock_shared |-> WAIT_QUERY,
     pg_advisory_xact_lock |-> WAIT_QUERY,
     pg_advisory_xact_lock_shared |-> WAIT_QUERY,
     pg_try_advisory_lock |-> TRY_QUERY,
     pg_try_advisory_lock_shared |-> TRY_QUERY,
     pg_try_advisory_xact_lock |-> TRY_QUERY,
     pg_try_advisory_xact_lock_shared |-> TRY_QUERY]

LOCK_FUNC_UNLOCK_FUNC_MAP ==
    [pg_advisory_lock |-> "pg_advisory_unlock",
     pg_advisory_lock_shared |-> "pg_advisory_unlock_shared",
     pg_advisory_xact_lock |-> None,
     pg_advisory_xact_lock_shared |-> None,
     pg_try_advisory_lock |-> "pg_advisory_unlock",
     pg_try_advisory_lock_shared |-> "pg_advisory_unlock_shared",
     pg_try_advisory_xact_lock |-> None,
     pg_try_advisory_xact_lock_shared |-> None]

\* What callers and factories pass to the functions: every option set or
\* unset, every configured default.
BlockValues == {Nothing, Just(TRUE), Just(FALSE)}
LockTypeValues == {None, EXCLUSIVE, SHARED}
ScopeValues == {None, TRANSACTION, SESSION}

\* get_lock_fn(block, lock_type, scope, self.block, self.lock_type, self.scope)
\* is called.
CallGetLockFn ==
    /\ call = NothingCalled
    /\ \E block \in BlockValues, lock_type \in LockTypeValues,
          scope \in ScopeValues, default_block \in BOOLEAN,
          default_lock_type \in {EXCLUSIVE, SHARED},
          default_scope \in {TRANSACTION, SESSION} :
          call' = [fn |-> "get_lock_fn",
                   block |-> block, lock_type |-> lock_type, scope |-> scope,
                   default_block |-> default_block,
                   default_lock_type |-> default_lock_type,
                   default_scope |-> default_scope,
                   result |-> get_lock_fn(block, lock_type, scope,
                                          Just(default_block),
                                          default_lock_type, default_scope)]
    /\ UNCHANGED <<lock_vars, wrapper>>

\* Psycopg2PGAdvisoryLock.__init__ calls get_unlock_fn(lock_fn) with the name
\* the factory selected for a request.
CallGetUnlockFn ==
    /\ call = NothingCalled
    /\ \E block \in BOOLEAN, lock_type \in {EXCLUSIVE, SHARED},
          scope \in {TRANSACTION, SESSION} :
          LET lock_fn == get_lock_fn(Just(block), lock_type, scope,
                                     Just(TRUE), EXCLUSIVE, TRANSACTION)
          IN  call' = [fn |-> "get_unlock_fn",
                       block |-> block, lock_type |-> lock_type,
                       scope |-> scope, lock_fn |-> lock_fn,
                       result |-> get_unlock_fn(lock_fn)]
    /\ UNCHANGED <<lock_vars, wrapper>>

\* The timeouts callers pass: none, and the integers around zero up to
\* beyond the largest timeout of the Locks.
TimeoutValues == {Nothing} \cup {Just(n) : n \in -1..(MaxTimeout + 1)}

\* handle_timeout(timeout, block) is called.
CallHandleTimeout ==
    /\ call = NothingCalled
    /\ \E timeout \in TimeoutValues, block \in BlockValues :
          call' = [fn |-> "handle_timeout", timeout |-> timeout,
                   block |-> block, result |-> handle_timeout(timeout, block)]
    /\ UNCHANGED <<lock_vars, wrapper>>

\* The SQL Server factories a deployment may configure, a custom lock mode
\* (or an empty one) among their options.
MSCustomFactories ==
    [delay : {Delay}, block : BOOLEAN,
     lock_type : {EXCLUSIVE, SHARED}, scope : {TRANSACTION, SESSION},
     lock_mode : {None, "", "Update"}]

\* AcquirePyMSSQLAdvisoryLock.__call__ of such a factory is called.
CallAcquirePyMSSQLAdvisoryLock ==
    /\ call = NothingCalled
    /\ \E self \in MSCustomFactories, block \in BlockValues,
          timeout \in {Nothing, Just(MaxTimeout)},
          lock_type \in LockTypeValues, scope \in ScopeValues :
          call' = [fn |-> "AcquirePyMSSQLAdvisoryLock", self |-> self,
                   block |-> block, timeout |-> timeout,
                   lock_type |-> lock_type, scope |-> scope,
                   result |-> AcquirePyMSSQLAdvisoryLock(
                                  self, "r1", block, timeout, lock_type, scope)]
    /\ UNCHANGED <<lock_vars, wrapper>>

\* The function returns to its caller.
FunctionReturns ==
    /\ call # NothingCalled
    /\ call' = NothingCalled
    /\ UNCHANGED <<lock_vars, wrapper>>

\* Only the functions are called; no Lock is produced.
FunctionsInit == Init /\ backend = "pg" /\ args = ExplicitArgs

\* Strings given as resources: the two the Locks contend for, the empty
\* string and a longer name.
ResourceNames == Resources \cup {"", "order-42"}

\* get_resource_id(resource) is called in one process and
\* PGAdvisoryLocker.__get_resource_id(resource) in another.
CallGetResourceId ==
    /\ call = NothingCalled
    /\ \E resource \in ResourceNames :
          call' = [fn |-> "get_resource_id",
                   resource |-> resource,
                   result |-> get_resource_id(resource),
                   legacy |-> PGAdvisoryLocker_get_resource_id(resource)]
    /\ UNCHANGED <<lock_vars, wrapper>>

FunctionsNext ==
    \/ CallGetResourceId
    \/ CallGetLockFn
    \/ CallGetUnlockFn
    \/ CallHandleTimeout
    \/ CallAcquirePyMSSQLAdvisoryLock
    \/ FunctionReturns

FunctionsSpec == FunctionsInit /\ [][FunctionsNext]_vars

\***************************************************** declarative wrapper
\* Python values of keyword arguments: tagged, so that str() can be taken.
IntValue(n) == <<"int", n>>
StrValue(s) == <<"str", s>>
Str(v) == IF v[1] = "int" THEN ToString(v[2]) ELSE v[2]

\* Index of the first occurrence of character c in s at or after i, or 0.
RECURSIVE Find(_, _, _)
Find(s, c, i) ==
    IF i > Len(s) THEN 0
    ELSE IF SubSeq(s, i, i) = c THEN i
    ELSE Find(s, c, i + 1)

\* template.format(**kwargs) for templates made of text and {name} fields:
\* every field is replaced by str() of the keyword argument of that name, and
\* a field without such an argument raises KeyError.
RECURSIVE Format(_, _)
Format(template, kwargs) ==
    LET open == Find(template, "{", 1)
        close == Find(template, "}", open + 1)
    IN  IF open = 0 THEN [exc |-> None, value |-> template]
        ELSE LET name == SubSeq(template, open + 1, close - 1)
                 rest == Format(SubSeq(template, close + 1, Len(template)), kwargs)
             IN  IF name \notin DOMAIN kwargs \/ rest.exc # None
                 THEN [exc |-> "KeyError", value |-> None]
                 ELSE [exc |-> None,
                       value |-> SubSeq(template, 1, open - 1)
                                 \o Str(kwargs[name]) \o rest.value]

\* Variant: a lookup that answers with some factory when the attribute is
\* missing.
GetAttrWithDefault(obj, attr) == "found"

\* getattr(obj, attr): the attribute, or AttributeError.
GetAttr(obj, attr) == IF attr \in obj THEN "found" ELSE "AttributeError"

\* The positional arguments of `locker(resource.format(**kwargs), block,
\* timeout, lock_type, scope)`.
LockerCall(resource, block, timeout, lock_type, scope) ==
    <<resource, block, timeout, lock_type, scope>>

\* Variant: a with statement that runs its body whatever __enter__ did.
AfterEnterRunsBody(enter_error) == "body"

\* `with lock:` after lock.__enter__(): the body runs unless __enter__ raised.
AfterEnter(enter_error) == IF enter_error.exc = None THEN "body" ELSE "raised"

\* What callers decorate and call: templates, the decorator's options, the
\* attributes the receiver has, the keyword arguments of the call (the
\* connection among them).
Templates == {"test-{id}", "res_{id}", "{kind}:{id}"}
Attrs == {"locker", "custom_locker"}
Receivers == {{"locker", "custom_locker"}, {"locker"}, {}}
CallKwargs ==
    {[connection |-> StrValue("test_connection"), id |-> IntValue(123)],
     [connection |-> StrValue("test_connection"), id |-> IntValue(42),
      kind |-> StrValue("user")]}

\* A decorated method is called: wrapper(obj, **kwargs) starts.
WrapperCall ==
    /\ wrapper.pc = "none"
    /\ \E template \in Templates, block \in {Just(TRUE), Just(FALSE)},
          timeout \in {Nothing, Just(10)}, lock_type \in {EXCLUSIVE, SHARED},
          scope \in {TRANSACTION, SESSION}, attr \in Attrs,
          obj \in Receivers, kwargs \in CallKwargs :
          wrapper' = [pc |-> "getattr", template |-> template, block |-> block,
                      timeout |-> timeout, lock_type |-> lock_type,
                      scope |-> scope, attr |-> attr, obj |-> obj,
                      kwargs |-> kwargs, calls |-> 0, call_args |-> <<>>,
                      enter_error |-> NoError, body_runs |-> 0, exits |-> 0,
                      body_outcome |-> None, raised |-> NoError]
    /\ UNCHANGED <<lock_vars, call>>

\* `locker = getattr(obj, attr)`
WrapperGetAttr ==
    /\ wrapper.pc = "getattr"
    /\ wrapper' =
          IF GetAttr(wrapper.obj, wrapper.attr) = "found"
          THEN [wrapper EXCEPT !.pc = "call"]
          ELSE [wrapper EXCEPT !.pc = "raised",
                               !.raised = [exc |-> "AttributeError",
                                           resource |-> None]]
    /\ UNCHANGED <<lock_vars, call>>

\* `locker(resource.format(**kwargs), block, timeout, lock_type, scope)`
WrapperLockerCall ==
    /\ wrapper.pc = "call"
    /\ LET formatted == Format(wrapper.template, wrapper.kwargs)
       IN  wrapper' =
             IF formatted.exc # None
             THEN [wrapper EXCEPT !.pc = "raised",
                                  !.raised = [exc |-> formatted.exc,
                                              resource |-> None]]
             ELSE [wrapper EXCEPT
                     !.pc = "enter",
                     !.calls = @ + 1,
                     !.call_args =
                         LockerCall(formatted.value, wrapper.block,
                                    wrapper.timeout, wrapper.lock_type,
                                    wrapper.scope)]
    /\ UNCHANGED <<lock_vars, call>>

\* `with <the Lock the factory produced>:` __enter__ returns, or raises
\* ResourceIsLocked for the resource the Lock was produced for.
WrapperEnter ==
    /\ wrapper.pc = "enter"
    /\ \E e \in {NoError, ResourceIsLocked(wrapper.call_args[1])} :
          wrapper' = [wrapper EXCEPT !.enter_error = e,
                                     !.pc = AfterEnter(e),
                                     !.raised = IF AfterEnter(e) = "raised"
                                                THEN e ELSE @]
    /\ UNCHANGED <<lock_vars, call>>

\* `return function(obj, *args, **kwargs)`: the wrapped function runs.
WrapperBody ==
    /\ wrapper.pc = "body"
    /\ \E how \in {"return", "raise"} :
          wrapper' = [wrapper EXCEPT !.pc = "exit", !.body_runs = @ + 1,
                                     !.body_outcome = how]
    /\ UNCHANGED <<lock_vars, call>>

\* The with statement ends: __exit__ of the Lock, then the result or the
\* exception of the wrapped function goes to the caller.
WrapperExit ==
    /\ wrapper.pc = "exit"
    /\ wrapper' =
          [wrapper EXCEPT
             !.exits = @ + 1,
             !.pc = IF WithResult(wrapper.body_outcome, ExitReturn) = "raise"
                    THEN "raised" ELSE "returned",
             !.raised = IF WithResult(wrapper.body_outcome, ExitReturn) = "raise"
                        THEN [exc |-> "BodyError", resource |-> None] ELSE @]
    /\ UNCHANGED <<lock_vars, call>>

\* The caller has the result or the exception.
WrapperReturn ==
    /\ wrapper.pc \in {"returned", "raised"}
    /\ wrapper' = NoCall
    /\ UNCHANGED <<lock_vars, call>>

\* Only the wrapper moves; the factory behind it is the default PostgreSQL one.
WrapperInit == Init /\ backend = "pg" /\ args = ExplicitArgs

WrapperNext ==
    \/ WrapperCall \/ WrapperGetAttr \/ WrapperLockerCall \/ WrapperEnter
    \/ WrapperBody \/ WrapperExit \/ WrapperReturn

WrapperSpec == WrapperInit /\ [][WrapperNext]_vars

\* The runs of the two database backends whose callers pass the blocking
\* and polling requests of WaitingArgs, under that assumption.
WaitingInit == Init /\ backend \in {"pg", "mssql"} /\ args = WaitingArgs

WaitingNext ==
    \E h \in Holders :
        \/ PGEnter(h) \/ PGAttempt(h) \/ PGExit(h)
        \/ MSEnter(h) \/ MSAttempt(h) \/ MSExit(h)
        \/ Wake(h) \/ Tick(h) \/ Body(h) \/ Return(h) \/ EndTransaction(h)

FairSpec == WaitingInit /\ [][WaitingNext]_vars /\ BackendAnswers

\********************************************************* claim vocabulary
\* Holder h's __enter__ makes its backend call and acts on the answer.
AttemptStep(h) == pc[h] = "attempt" /\ pc'[h] # "attempt"

\* The Lock object asks the backend for an answer at once: a PostgreSQL try
\* function, flock() with LOCK_NB, sp_getapplock with @LockTimeout = 0.
NonBlocking(L) ==
    CASE L.cls = "pg" -> Contains(L.lock_fn, "try")
      [] L.cls = "file" -> TRUE
      [] L.cls = "mssql" -> L.timeout = 0
      [] OTHER -> FALSE

\* The Lock object was asked to block (block=True).
Blocking(L) ==
    CASE L.cls = "pg" -> TruthyBool(L.block)
      [] L.cls = "mssql" -> L.timeout # 0
      [] OTHER -> FALSE

\* The Lock object acquires through the polling loop of __enter__.
Polling(L) ==
    CASE L.cls = "pg" -> Contains(L.lock_fn, "try")
      [] L.cls = "file" -> TRUE
      [] OTHER -> FALSE

\* More than the timeout of holder h's Lock has elapsed in its __enter__.
PastDeadline(h) == HasDeadline(lock[h]) /\ ~WithinTimeout(lock[h], elapsed[h])

\* Holder o has ended the transaction that owned its transaction-scoped lock.
GaveUp(o) == txn_ended[o] /\ IsTransactionScoped(lock[o])

\* Holder o is inside the context of a lock on resource r that it has not
\* given up by ending its transaction.
HoldsInContext(o, r) == InContext(o) /\ lock[o].resource = r /\ ~GaveUp(o)

\* The backend holds an exclusive lock on the resource for holder h.
BackendHoldsExclusive(h, resource) ==
    CASE backend = "pg" ->
            PGHoldsExclusive(pg_locks, h, get_resource_id(resource))
      [] backend = "file" ->
            /\ fd[h] = factory.path \o resource \o factory.extension
            /\ flocks[h] = "LOCK_EX"
      [] backend = "mssql" ->
            \E ow \in Owners : /\ applocks[h][resource][ow].count > 0
                               /\ applocks[h][resource][ow].mode # "Shared"

\* The backend holds nothing for holder o.
Quiet(o) ==
    /\ \A k \in Keys : pg_locks[o][k] = PGFree
    /\ flocks[o] = "LOCK_UN"
    /\ \A r \in Resources : \A ow \in Owners : applocks[o][r][ow] = AppFree

\* The backend holds nothing for holder o under another key, file or name
\* than those of o's Lock object.
Confined(o) ==
    /\ \A k \in Keys : lock[o].cls = "pg" /\ k # lock[o].resource_id
                          => pg_locks[o][k] = PGFree
    /\ \A r \in Resources : lock[o].cls = "mssql" /\ r # lock[o].resource
                          => \A ow \in Owners : applocks[o][r][ow] = AppFree

\* Holder a's connection holds a transaction-level PostgreSQL lock on the
\* resource.
HoldsTransactionLevel(a, resource) ==
    /\ backend = "pg"
    /\ LET e == pg_locks[a][get_resource_id(resource)]
       IN  e.xact_ex \/ e.xact_sh

\* The backend holds a session-level lock on the resource for holder a.
HoldsSessionLevel(a, resource) ==
    CASE backend = "pg" ->
            LET e == pg_locks[a][get_resource_id(resource)]
            IN  e.sess_ex > 0 \/ e.sess_sh > 0
      [] backend = "mssql" ->
            applocks[a][resource][OWNER_TYPE_SESSION].count > 0
      [] OTHER -> FALSE

\* Holder h asked for its lock with block=True and no timeout.
WaitsWithoutTimeout(h) ==
    request[h].block = Just(TRUE) /\ request[h].timeout = Nothing

\* The request with the factory's configured default in the place of every
\* option it leaves unset.
WithDefaults(self, q) ==
    [q EXCEPT !.block = IF q.block = Nothing THEN Just(self.block) ELSE q.block,
              !.lock_type = IF q.lock_type = None THEN self.lock_type
                            ELSE q.lock_type,
              !.scope = IF q.scope = None THEN self.scope ELSE q.scope]

\* The Lock the configured factory produces for a request.
Produce(self, q) ==
    CASE backend = "pg" ->
            AcquirePsycopg2PGAdvisoryLock(self, q.resource, q.block, q.timeout,
                                          q.lock_type, q.scope)
      [] backend = "mssql" ->
            AcquirePyMSSQLAdvisoryLock(self, q.resource, q.block, q.timeout,
                                       q.lock_type, q.scope)

\* What a Lock does in acquisition and release: the backend operation, whether
\* it waits in the backend or polls and for how long, the owner, the release.
Behaviour(L) ==
    CASE L.cls = "pg" ->
            <<L.lock_fn, TruthyBool(L.block), L.timeout, L.unlock_fn>>
      [] L.cls = "mssql" ->
            <<L.lock_mode, L.timeout, L.lock_owner>>

\******************************************************************* claims
\* C1 (mutual exclusion): in every reachable state, a holder for which the
\* backend holds an EXCLUSIVE lock on a resource is the only one the backend
\* holds any lock on that resource for; and two independent holders are
\* never both inside a `with` body on the same resource when one of the two
\* locks is EXCLUSIVE (a holder that ended its transaction inside the body
\* of a transaction-scoped lock has given the lock up itself).
MutualExclusion ==
    \A a \in Holders : \A b \in Holders \ {a} : \A r \in Resources :
        /\ BackendHoldsExclusive(a, r) => ~BackendHolds(b, r)
        /\ HoldsInContext(a, r) /\ HoldsInContext(b, r)
              => ~IsExclusive(lock[a]) /\ ~IsExclusive(lock[b])

\* An EXCLUSIVE holder is in its body while the acquire of another holder on
\* the same resource has been refused.
ExclusiveHolderShutsOut ==
    \E a \in Holders : \E b \in Holders \ {a} :
        /\ pc[a] = "held" /\ IsExclusive(lock[a]) /\ ~txn_ended[a]
        /\ pc[b] = "raised" /\ grants[b] = 0
        /\ lock[b].resource = lock[a].resource

\* C2 (a failed acquire leaves no lock held): whenever __enter__ has ended by
\* raising ResourceIsLocked, the backend granted no lock to that __enter__.
FailedAcquireHoldsNothing ==
    \A h \in Holders : pc[h] = "raised" => grants[h] = 0

\* C3 (non-blocking, no timeout, conflict): the backend call of a
\* non-blocking acquire without timeout, made while another holder is in the
\* context of a lock on the same resource and one of the two locks is
\* EXCLUSIVE, is followed by ResourceIsLocked.
NonBlockingConflictRaises ==
    [][\A h \in Holders :
          /\ AttemptStep(h)
          /\ NonBlocking(lock[h]) /\ ~HasDeadline(lock[h])
          /\ \E o \in Holders \ {h} :
                /\ HoldsInContext(o, lock[h].resource)
                /\ IsExclusive(lock[h]) \/ IsExclusive(lock[o])
          => pc'[h] = "raised"]_vars

\* An EXCLUSIVE non-blocking acquire without timeout has raised, having been
\* granted nothing, while the other holder is in the body of a SHARED lock
\* on the resource.
ExclusiveRefusedBesideShared ==
    \E a \in Holders : \E b \in Holders \ {a} :
        /\ pc[b] = "raised" /\ grants[b] = 0
        /\ NonBlocking(lock[b]) /\ ~HasDeadline(lock[b]) /\ IsExclusive(lock[b])
        /\ HoldsInContext(a, lock[b].resource) /\ ~IsExclusive(lock[a])

\* C4 (shared with shared): the backend call of a non-blocking SHARED acquire,
\* made while another holder is in the context of a SHARED lock on the same
\* resource and the backend holds no exclusive lock on it for anyone else,
\* is followed by entering the body.
SharedBesideSharedSucceeds ==
    [][\A h \in Holders :
          /\ AttemptStep(h)
          /\ NonBlocking(lock[h]) /\ ~IsExclusive(lock[h])
          /\ \E o \in Holders \ {h} :
                HoldsInContext(o, lock[h].resource) /\ ~IsExclusive(lock[o])
          /\ \A o \in Holders \ {h} :
                ~BackendHoldsExclusive(o, lock[h].resource)
          => pc'[h] = "held"]_vars

\* Two holders are in the bodies of SHARED locks on one resource.
TwoSharedHolders ==
    \E a \in Holders : \E b \in Holders \ {a} :
        /\ pc[a] = "held" /\ pc[b] = "held"
        /\ lock[a].resource = lock[b].resource
        /\ ~IsExclusive(lock[a]) /\ ~IsExclusive(lock[b])
        /\ NonBlocking(lock[a]) /\ NonBlocking(lock[b])
        /\ ~txn_ended[a] /\ ~txn_ended[b]

\* C5 (different resources are independent): the backend call of a
\* non-blocking acquire on resource r1, made while another holder is in the
\* context of an EXCLUSIVE lock on a different resource r2 and no other
\* holder has anything but the lock of its context on a resource other than
\* r1, is followed by entering the body.
DifferentResourcesIndependent ==
    [][\A h \in Holders :
          /\ AttemptStep(h)
          /\ NonBlocking(lock[h])
          /\ \E o \in Holders \ {h} :
                /\ InContext(o) /\ lock[o].resource # lock[h].resource
                /\ IsExclusive(lock[o]) /\ ~txn_ended[o]
          /\ \A o \in Holders \ {h} :
                \/ Quiet(o)
                \/ /\ InContext(o) /\ lock[o].resource # lock[h].resource
                   /\ Confined(o)
          => pc'[h] = "held"]_vars

\* Two holders are in the bodies of EXCLUSIVE locks, taken without
\* blocking, on two different resources.
TwoResourcesHeld ==
    \E a \in Holders : \E b \in Holders \ {a} :
        /\ pc[a] = "held" /\ pc[b] = "held"
        /\ lock[a].resource # lock[b].resource
        /\ IsExclusive(lock[a]) /\ IsExclusive(lock[b])
        /\ NonBlocking(lock[a]) /\ NonBlocking(lock[b])
        /\ ~txn_ended[a] /\ ~txn_ended[b]

\* C6 as stated (round trip, for every backend and both scopes): once holder
\* a's context has been left through __exit__ and no third holder holds the
\* resource, the backend call of a non-blocking acquire of the same resource
\* by holder b is followed by entering the body.
ReleasedIsAcquirable ==
    [][\A b \in Holders : \A a \in Holders \ {b} :
          /\ AttemptStep(b)
          /\ NonBlocking(lock[b])
          /\ pc[a] = "done" /\ result[a] \in {"return", "raise"}
          /\ lock[a].resource = lock[b].resource
          /\ \A o \in Holders \ {a, b} : Quiet(o)
          => pc'[b] = "held"]_vars

\* C6 as amended: the same, provided a's connection holds no
\* transaction-level PostgreSQL lock on the resource (the release of a
\* TRANSACTION-scoped PostgreSQL lock is left to the end of the transaction).
ReleasedIsAcquirableUnlessTransactionLevel ==
    [][\A b \in Holders : \A a \in Holders \ {b} :
          /\ AttemptStep(b)
          /\ NonBlocking(lock[b])
          /\ pc[a] = "done" /\ result[a] \in {"return", "raise"}
          /\ lock[a].resource = lock[b].resource
          /\ ~HoldsTransactionLevel(a, lock[a].resource)
          /\ \A o \in Holders \ {a, b} : Quiet(o)
          => pc'[b] = "held"]_vars

\* Holder b is in the body of an EXCLUSIVE lock, taken without blocking, on
\* the resource of the lock holder a has acquired and released, a lock that
\* was no transaction-scoped PostgreSQL lock.
AcquiredAfterRelease ==
    \E a \in Holders : \E b \in Holders \ {a} :
        /\ pc[a] = "done" /\ result[a] \in {"return", "raise"}
        /\ ~(lock[a].cls = "pg" /\ IsTransactionScoped(lock[a]))
        /\ ~HoldsTransactionLevel(a, lock[a].resource)
        /\ pc[b] = "held" /\ NonBlocking(lock[b]) /\ IsExclusive(lock[b])
        /\ lock[b].resource = lock[a].resource

BlockingTimeoutRaises ==
    \A h \in Holders :
        /\ pc[h] = "attempt"
        /\ Blocking(lock[h]) /\ HasDeadline(lock[h])
        /\ ~free_seen[h]
        => WithinTimeout(lock[h], elapsed[h])

\* C9 (polling timeout): a pass of the polling loop with timeout T > 0 that
\* meets a conflicting lock never enters the body; it raises
\* ResourceIsLocked when the elapsed time is strictly greater than T and
\* sleeps otherwise; and the loop raises in no other case.
PollingRaisesOnlyPastDeadline ==
    [][\A h \in Holders :
          AttemptStep(h) /\ Polling(lock[h]) /\ HasDeadline(lock[h])
          => /\ Contended(h) /\ PastDeadline(h) => pc'[h] = "raised"
             /\ Contended(h) /\ ~PastDeadline(h) => pc'[h] = "sleep"
             /\ pc'[h] = "raised" => Contended(h) /\ PastDeadline(h)]_vars

\* A polling acquire with a timeout has raised, granted nothing, at an
\* elapsed time beyond its timeout.
PollingTimedOut ==
    \E h \in Holders :
        /\ pc[h] = "raised" /\ grants[h] = 0
        /\ Polling(lock[h]) /\ PastDeadline(h)

PollingWithoutTimeoutFailsAtOnce ==
    [][\A h \in Holders :
          /\ AttemptStep(h) /\ Polling(lock[h]) /\ ~HasDeadline(lock[h])
                /\ Contended(h)
             => /\ pc'[h] = "raised"
                /\ error'[h].exc = "ResourceIsLocked"
                /\ attempts'[h] = 1
          /\ pc'[h] = "sleep" => HasDeadline(lock'[h])]_vars

\* A polling acquire with a negative timeout has raised after one backend
\* call that granted nothing.
NegativeTimeoutRaisedAtOnce ==
    \E h \in Holders :
        /\ pc[h] = "raised" /\ attempts[h] = 1 /\ grants[h] = 0
        /\ Polling(lock[h]) /\ request[h].timeout = Just(-1)


\* C12 (TRANSACTION scope, release with the transaction): once the connection
\* of holder a has committed or rolled back after a got its lock, requested
\* with scope TRANSACTION, and no third holder holds anything, the backend
\* call of a non-blocking acquire of the same resource by holder b is
\* followed by entering the body, whether a is still in its context or has
\* left it.
TransactionEndReleases ==
    [][\A b \in Holders : \A a \in Holders \ {b} :
          /\ AttemptStep(b)
          /\ NonBlocking(lock[b])
          /\ request[a].scope = TRANSACTION
          /\ pc[a] \in {"held", "exiting", "done"} /\ txn_ended[a]
          /\ request[a].resource = request[b].resource
          /\ \A o \in Holders \ {a, b} : Quiet(o)
          => pc'[b] = "held"]_vars

\* Holder b is in the body of an EXCLUSIVE lock, taken without blocking, on
\* the resource of the EXCLUSIVE TRANSACTION-scoped lock whose context holder
\* a has left before ending its transaction.
AcquiredAfterTransactionEnd ==
    \E a \in Holders : \E b \in Holders \ {a} :
        /\ pc[a] = "done" /\ txn_ended[a]
        /\ request[a].scope = TRANSACTION /\ IsExclusive(lock[a])
        /\ pc[b] = "held" /\ NonBlocking(lock[b]) /\ IsExclusive(lock[b])
        /\ request[b].resource = request[a].resource


\* C13 (SESSION scope persists): as long as holder a is in the context of a
\* lock requested with scope SESSION, the backend holds a session-level lock
\* on the resource for a, commit or rollback notwithstanding; and the backend
\* call of a non-blocking acquire without timeout of the same resource by
\* holder b, made after a's connection committed or rolled back inside that
\* context, one of the two locks being EXCLUSIVE, is followed by
\* ResourceIsLocked.
SessionLockOutlivesTransaction ==
    [][\A a \in Holders :
          /\ InContext(a) /\ request[a].scope = SESSION
                => HoldsSessionLevel(a, request[a].resource)
          /\ \A b \in Holders \ {a} :
                /\ AttemptStep(b)
                /\ NonBlocking(lock[b]) /\ ~HasDeadline(lock[b])
                /\ InContext(a) /\ request[a].scope = SESSION /\ txn_ended[a]
                /\ request[a].resource = request[b].resource
                /\ IsExclusive(lock[a]) \/ IsExclusive(lock[b])
                => pc'[b] = "raised" /\ error'[b].exc = "ResourceIsLocked"]_vars

\* Holder a has ended its transaction in the body of a SESSION-scoped lock
\* and the non-blocking acquire of the same resource by holder b has raised.
RefusedAfterCommitInSession ==
    \E a \in Holders : \E b \in Holders \ {a} :
        /\ pc[a] = "held" /\ request[a].scope = SESSION /\ txn_ended[a]
        /\ pc[b] = "raised" /\ grants[b] = 0 /\ NonBlocking(lock[b])
        /\ request[b].resource = request[a].resource


\* C14 (blocking acquire with no timeout waits rather than fails): an acquire
\* requested with block=True and no timeout never raises and never sleeps
\* between attempts; and, the backend answering the calls it can answer, an
\* acquire that waits in its backend call gets into the body unless a
\* conflicting lock is (again) in its way.
BlockingWaitsUntilFree ==
    \A h \in Holders :
        /\ [](WaitsWithoutTimeout(h) => pc[h] \notin {"raised", "sleep"})
        /\ (WaitsWithoutTimeout(h) /\ pc[h] = "attempt")
              ~> (pc[h] = "held" \/ Contended(h))

\* A blocking acquire without timeout that waited for a conflicting lock is
\* in its body: the other holder has left its context.
HeldAfterWaiting ==
    \E h \in Holders : \E o \in Holders \ {h} :
        /\ pc[h] = "held" /\ WaitsWithoutTimeout(h) /\ IsExclusive(lock[h])
        /\ pc[o] = "done" /\ IsExclusive(lock[o])
        /\ request[o].resource = request[h].resource


\* C15 (factory defaults): the Lock a PostgreSQL or SQL Server factory has
\* produced for a request behaves in acquisition and release like the Lock it
\* produces when the configured default is passed for every option (block,
\* lock_type, scope) the request left unset.
UnsetMeansConfiguredDefault ==
    \A h \in Holders :
        lock[h].cls \in {"pg", "mssql"}
        => Behaviour(lock[h])
              = Behaviour(Produce(factory, WithDefaults(factory, request[h])))


\* C16 (declarative wrapper call): once the wrapper of a method decorated
\* with locking(template, block, timeout, lock_type, scope, attr) has got
\* past the call of the factory, it has called the factory exactly once, with
\* the arguments (connection, template formatted with the keyword arguments
\* of the call, block, timeout, lock_type, scope), in that order.
WrapperCallsFactoryWithConnection ==
    wrapper.pc \in {"enter", "body", "exit", "returned"}
    => /\ wrapper.calls = 1
       /\ Len(wrapper.call_args) = 6
       /\ wrapper.call_args[1] = wrapper.kwargs["connection"][2]
       /\ wrapper.call_args[2] = Format(wrapper.template, wrapper.kwargs).value
       /\ wrapper.call_args[3] = wrapper.block
       /\ wrapper.call_args[4] = wrapper.timeout
       /\ wrapper.call_args[5] = wrapper.lock_type
       /\ wrapper.call_args[6] = wrapper.scope

\* C17 (the wrapper propagates the lock error): when __enter__ of the Lock
\* the factory produced has raised ResourceIsLocked, the decorated call has
\* ended by raising that very exception, the wrapped function has not run
\* and __exit__ of the Lock has not been called.
WrapperPropagatesLockError ==
    wrapper.pc # "none" /\ wrapper.enter_error.exc = "ResourceIsLocked"
    => /\ wrapper.pc = "raised"
       /\ wrapper.raised = wrapper.enter_error
       /\ wrapper.body_runs = 0
       /\ wrapper.exits = 0

\* A decorated call has ended with the ResourceIsLocked of the Lock its one
\* call of the factory produced.
DecoratedCallRefused ==
    /\ wrapper.pc = "raised"
    /\ wrapper.calls = 1
    /\ wrapper.raised = ResourceIsLocked("test-123")

\* C18 (wrapper with a missing factory): when the receiver has no attribute
\* named attr, the decorated call, once past the lookup, has ended by raising
\* an attribute-lookup error, without having called any factory and without
\* having run the wrapped function.
MissingFactoryRaisesFirst ==
    /\ wrapper.pc \notin {"none", "getattr"}
    /\ wrapper.attr \notin wrapper.obj
    => /\ wrapper.pc = "raised"
       /\ wrapper.raised.exc = "AttributeError"
       /\ wrapper.calls = 0
       /\ wrapper.body_runs = 0
       /\ wrapper.exits = 0

\* A decorated call on a receiver without the attribute custom_locker has
\* ended with the lookup error.
DecoratedCallWithoutFactory ==
    /\ wrapper.pc = "raised"
    /\ wrapper.attr = "custom_locker" /\ wrapper.obj = {"locker"}
    /\ wrapper.raised.exc = "AttributeError"


\* C19 (the error names the resource): an __enter__ that has ended by raising
\* has raised ResourceIsLocked, and every ResourceIsLocked a Lock has raised
\* carries the resource string its caller passed to the factory, not the
\* lock file and not the key derived from it.
ErrorCarriesCallersResource ==
    \A h \in Holders :
        /\ pc[h] = "raised" => error[h].exc = "ResourceIsLocked"
        /\ error[h].exc = "ResourceIsLocked"
              => error[h].resource = request[h].resource

\* The acquire of a file lock on resource r1 has raised ResourceIsLocked for
\* "r1", the lock file being /locks/r1.lock.
FileLockErrorNamesResource ==
    \E h \in Holders :
        /\ pc[h] = "raised" /\ lock[h].cls = "file"
        /\ lock[h].file = "/locks/r1.lock"
        /\ error[h] = ResourceIsLocked("r1")


\* C20 (non-contention failures are not translated): an __enter__ one of
\* whose backend calls failed for another reason than a conflicting lock has
\* ended by raising that failure: it has not raised ResourceIsLocked and has
\* not gone on to sleep and attempt again.
FailureReachesCallerAsItself ==
    \A h \in Holders :
        fault[h] # None => pc[h] = "raised" /\ error[h].exc = fault[h]


\* C21 (PostgreSQL selector): the name get_lock_fn returns is 'pg_', 'try_'
\* exactly for a request that, after defaulting, does not block, 'advisory_',
\* 'xact_' exactly for scope TRANSACTION, 'lock', and '_shared' exactly for
\* type SHARED; the names of the eight requests are eight different names,
\* those of the legacy table LOCK_FN_QUERY_TYPE_MAP, which marks as TRY
\* exactly the names of the non-blocking requests.
SelectorBuildsTheEightNames ==
    call.fn = "get_lock_fn"
    => LET b == IF call.block # Nothing THEN call.block[1] ELSE call.default_block
           t == IF call.lock_type # None THEN call.lock_type
                ELSE call.default_lock_type
           s == IF call.scope # None THEN call.scope ELSE call.default_scope
           name == call.result
           names == {get_lock_fn(Just(xb), xt, xs, Just(TRUE), EXCLUSIVE, SESSION) :
                        xb \in BOOLEAN, xt \in {EXCLUSIVE, SHARED},
                        xs \in {TRANSACTION, SESSION}}
       IN  /\ name = "pg_" \o (IF b THEN "" ELSE "try_") \o "advisory_"
                     \o (IF s = TRANSACTION THEN "xact_" ELSE "") \o "lock"
                     \o (IF t = SHARED THEN "_shared" ELSE "")
           /\ Contains(name, "try_") <=> ~b
           /\ Contains(name, "xact_") <=> s = TRANSACTION
           /\ Contains(name, "_shared") <=> t = SHARED
           /\ name \in DOMAIN LOCK_FN_QUERY_TYPE_MAP
           /\ LOCK_FN_QUERY_TYPE_MAP[name] = TRY_QUERY <=> ~b
           /\ names = DOMAIN LOCK_FN_QUERY_TYPE_MAP
           /\ Cardinality(names) = 8

\* get_lock_fn has been called with every option unset, on a factory
\* configured not to block, for SHARED locks of scope TRANSACTION, and has
\* returned pg_try_advisory_xact_lock_shared.
SelectorAppliedDefaults ==
    /\ call.fn = "get_lock_fn"
    /\ call.block = Nothing /\ call.lock_type = None /\ call.scope = None
    /\ call.result = "pg_try_advisory_xact_lock_shared"


\* C22 (PostgreSQL release selection): for the acquire function of each of
\* the eight requests, get_unlock_fn returns None exactly when the scope is
\* TRANSACTION, and otherwise pg_advisory_unlock_shared for SHARED and
\* pg_advisory_unlock for EXCLUSIVE, whether the request blocks or not; it
\* returns what the legacy table LOCK_FUNC_UNLOCK_FUNC_MAP has for the name.
UnlockFollowsScopeAndType ==
    call.fn = "get_unlock_fn"
    => /\ call.result = None <=> call.scope = TRANSACTION
       /\ call.scope = SESSION
             => call.result = IF call.lock_type = SHARED
                              THEN "pg_advisory_unlock_shared"
                              ELSE "pg_advisory_unlock"
       /\ call.lock_fn \in DOMAIN LOCK_FUNC_UNLOCK_FUNC_MAP
       /\ call.result = LOCK_FUNC_UNLOCK_FUNC_MAP[call.lock_fn]

\* get_unlock_fn has returned pg_advisory_unlock_shared for
\* pg_try_advisory_lock_shared.
UnlockOfSharedTry ==
    /\ call.fn = "get_unlock_fn"
    /\ call.lock_fn = "pg_try_advisory_lock_shared"
    /\ call.result = "pg_advisory_unlock_shared"


\* C23 (SQL Server release is never automatic): for both owners and both
\* modes, leaving the context of a SQL Server Lock is one call of __exit__,
\* which releases one hold of the resource and the owner the acquire call
\* named and touches no other: the hold the acquire got, unless the end of
\* the transaction had taken it already, in which case the release call
\* fails; and no step of a Lock but __exit__ takes a hold away.
MSReleaseIsExplicit ==
    [][\A h \in Holders :
          /\ backend = "mssql" /\ pc[h] = "exiting" /\ pc'[h] = "done"
             => LET r == lock[h].resource
                    ow == lock[h].lock_owner
                    n == applocks[h][r][ow].count
                IN  /\ exits'[h] = 1
                    /\ grants[h] = 1
                    /\ \A r2 \in Resources : \A ow2 \in Owners :
                          applocks'[h][r2][ow2].count =
                             IF r2 = r /\ ow2 = ow /\ n > 0 THEN n - 1
                             ELSE applocks[h][r2][ow2].count
                    /\ n = 0 <=> result'[h] = "release_error"
                    /\ n = 0 => txn_ended[h] /\ ow = OWNER_TYPE_TRANSACTION
          /\ backend = "mssql" /\ pc'[h] = pc[h] /\ txn_ended'[h] = txn_ended[h]
             => applocks'[h] = applocks[h]]_vars

\* The context of a Transaction-owned SQL Server lock has been left: its
\* __exit__ has run once and the session holds nothing on the resource.
TransactionOwnedLockReleased ==
    \E h \in Holders :
        /\ backend = "mssql" /\ pc[h] = "done" /\ exits[h] = 1
        /\ lock[h].lock_owner = OWNER_TYPE_TRANSACTION /\ ~txn_ended[h]
        /\ result[h] = "return"
        /\ \A ow \in Owners : applocks[h][lock[h].resource][ow].count = 0


\* C24 (SQL Server timeout conversion): handle_timeout returns 0 whenever
\* block is false, whatever the timeout; -1 when block is true and the
\* timeout is None; and the timeout times 1000 when block is true and the
\* timeout is positive.
TimeoutInMilliseconds ==
    call.fn = "handle_timeout"
    => /\ ~TruthyBool(call.block) => call.result = 0
       /\ TruthyBool(call.block) /\ call.timeout = Nothing => call.result = -1
       /\ TruthyBool(call.block) /\ call.timeout # Nothing
             /\ call.timeout[1] > 0
             => call.result = call.timeout[1] * 1000

\* handle_timeout has returned 1000 for a blocking request with a timeout of
\* one second.
OneSecondIsThousand ==
    /\ call.fn = "handle_timeout"
    /\ call.block = Just(TRUE) /\ call.timeout = Just(1)
    /\ call.result = 1000

\* C25 (SQL Server selection): the Lock a SQL Server factory produces asks
\* for the factory's custom mode string when one is configured, and
\* otherwise for Exclusive when the lock type (after defaulting) is
\* EXCLUSIVE and for Shared when it is SHARED; its owner is Transaction for
\* scope TRANSACTION and Session for scope SESSION.
MSModeAndOwnerSelected ==
    call.fn = "AcquirePyMSSQLAdvisoryLock"
    => LET L == call.result
           custom == call.self.lock_mode
           t == IF call.lock_type # None THEN call.lock_type
                ELSE call.self.lock_type
       IN  /\ custom \notin {None, ""} => L.lock_mode = custom
           /\ custom \in {None, ""} /\ t = EXCLUSIVE => L.lock_mode = "Exclusive"
           /\ custom \in {None, ""} /\ t = SHARED => L.lock_mode = "Shared"
           /\ call.scope = TRANSACTION => L.lock_owner = "Transaction"
           /\ call.scope = SESSION => L.lock_owner = "Session"

\* A factory configured with the custom mode Update has produced, for a
\* SHARED request of scope SESSION, a Lock of mode Update owned by the
\* session.
CustomModeSelected ==
    /\ call.fn = "AcquirePyMSSQLAdvisoryLock"
    /\ call.lock_type = SHARED /\ call.scope = SESSION
    /\ call.result.lock_mode = "Update"
    /\ call.result.lock_owner = "Session"


\* C26 (SQL Server result handling): once sp_getapplock has answered the
\* __enter__ of a SQL Server Lock, __enter__ has raised ResourceIsLocked if
\* the answer is negative and has returned, the body being entered, if it is
\* not; and __enter__ does not raise ResourceIsLocked without a negative
\* answer.
NegativeResultRaises ==
    \A h \in Holders :
        backend = "mssql"
        => /\ answer[h] # Nothing /\ answer[h][1] < 0
                 => pc[h] = "raised" /\ error[h].exc = "ResourceIsLocked"
           /\ answer[h] # Nothing /\ answer[h][1] >= 0
                 => pc[h] \in {"held", "exiting", "done"}
                    /\ error[h] = NoError
           /\ error[h].exc = "ResourceIsLocked"
                 => answer[h] # Nothing /\ answer[h][1] < 0

\* The __enter__ of a SQL Server Lock has raised ResourceIsLocked on the
\* answer -3 of sp_getapplock.
DeadlockVictimRaised ==
    \E h \in Holders :
        /\ backend = "mssql" /\ pc[h] = "raised"
        /\ answer[h] = Just(-3)
        /\ error[h] = ResourceIsLocked(request[h].resource)


\* C27 (release is idempotent): a second call of __exit__ of a Lock that was
\* acquired and released once raises no error and leaves the locks of the
\* backend as the first call left them, the holds of other Locks of the same
\* connection on the resource among them.
SecondReleaseChangesNothing ==
    [][\A h \in Holders :
          pc[h] = "done" /\ exits[h] = 1 /\ exits'[h] = 2
             /\ result[h] \in {"return", "raise"}
          => /\ result'[h] = result[h]
             /\ pg_locks' = pg_locks
             /\ flocks' = flocks /\ fd' = fd
             /\ applocks' = applocks]_vars


\* C28 (resource identifier codec): the identifier of a resource string is a
\* 64-bit signed integer, here four 16-bit limbs of which the last carries
\* the sign; it is the first 8 bytes of the blake2b digest of the string read
\* little-endian, and the legacy PGAdvisoryLocker derives the same identifier
\* from the same string.
ResourceIdIsSignedDigest ==
    call.fn = "get_resource_id"
    => LET id == call.result
           b == Blake2bDigest8(call.resource)
       IN  /\ Len(id) = 4
           /\ \A i \in 1..3 : id[i] \in 0..65535
           /\ id[4] \in -32768..32767
           /\ \A i \in 1..4 :
                 (id[i] - (b[2 * i - 1] + 256 * b[2 * i])) % 65536 = 0
           /\ call.legacy = id
           /\ id = get_resource_id(call.resource)

NegativeKeyAgreed ==
    /\ call.fn = "get_resource_id"
    /\ call.result[4] < 0
    /\ call.legacy = call.result


\* C29 (the Lock only borrows the connection): a pass of __enter__ and a call
\* of __exit__ of a database Lock make no call on the connection but the
\* selected acquire operation and the selected release operation, if there is
\* one; they end no transaction, and they touch no lock but the Lock's own
\* entry, where a PostgreSQL transaction-level hold is never taken away.
LockOnlyBorrowsConnection ==
    [][\A h \in Holders :
          /\ lock[h].cls \in {"pg", "mssql"}
          /\ \/ pc[h] = "attempt" /\ attempts'[h] # attempts[h]
             \/ pc[h] = "exiting" /\ exits'[h] # exits[h]
          => LET L == lock[h]
             IN  /\ issued'[h] \subseteq
                       IF L.cls = "pg"
                       THEN {L.lock_fn} \cup
                            (IF L.unlock_fn # None THEN {L.unlock_fn} ELSE {})
                       ELSE {"sp_getapplock", "sp_releaseapplock"}
                 /\ pc[h] = "exiting" /\ L.cls = "pg" /\ L.unlock_fn = None
                    => issued'[h] = issued[h]
                 /\ txn_ended' = txn_ended
                 /\ \A c \in Holders, k \in Keys :
                       /\ c # h \/ L.cls # "pg" \/ k # L.resource_id
                          => pg_locks'[c][k] = pg_locks[c][k]
                       /\ pg_locks[c][k].xact_ex => pg_locks'[c][k].xact_ex
                       /\ pg_locks[c][k].xact_sh => pg_locks'[c][k].xact_sh
                 /\ \A c \in Holders, r \in Resources, ow \in Owners :
                       c # h \/ L.cls # "mssql" \/ r # L.resource
                          \/ ow # L.lock_owner
                       => applocks'[c][r][ow] = applocks[c][r][ow]]_vars

ConnectionReturnedInTransaction ==
    \E h \in Holders :
        /\ pc[h] = "done"
        /\ lock[h].cls = "pg"
        /\ lock[h].unlock_fn # None
        /\ issued[h] = {lock[h].lock_fn, lock[h].unlock_fn}
        /\ ~txn_ended[h]
        /\ \E k \in Keys : pg_locks[h][k].xact_ex \/ pg_locks[h][k].xact_sh


\* C30 (the factory is immutable and stateless): no step changes the
\* configured fields of the factory, and the Lock a factory call produces is
\* the one its arguments and those fields determine, whatever was called
\* before.
FactoryIsStateless ==
    [][/\ factory' = factory
       /\ \A h \in Holders :
             pc[h] = "idle" /\ pc'[h] = "attempt"
             => LET q == request'[h]
                IN  lock'[h] =
                       IF backend = "file"
                       THEN FileLocker_acquire(factory', q.resource,
                                               q.lock_type, q.timeout)
                       ELSE Produce(factory', q)]_vars

FactoryCalledAgainDifferently ==
    \E a \in Holders : \E b \in Holders \ {a} :
        /\ backend \in {"pg", "mssql"}
        /\ lock[a] # NoLock /\ lock[b] # NoLock
        /\ pc[a] = "held" /\ pc[b] = "attempt" /\ attempts[b] = 0
        /\ request[a].lock_type # request[b].lock_type
        /\ request[a].scope # request[b].scope
        /\ lock[b] = Produce(factory, request[b])
        /\ lock[a] = Produce(factory, request[a])


\* C31 (polling loop termination): an acquire through the polling loop, with
\* a delay D > 0 between attempts and a clock that advances by at least D in
\* every sleep, ends in the body or with ResourceIsLocked, whatever the
\* other holders do; it calls the backend at most floor(T/D) + 2 times under
\* a timeout T > 0 and once without one.
PollingLoopEnds ==
    /\ [](\A h \in Holders :
            lock[h].cls \in {"pg", "file"}
            => LET L == lock[h]
                   D == IF L.cls = "pg" THEN L.delay ELSE L.timeout_delay
               IN  /\ D > 0
                   /\ attempts[h] <= IF HasDeadline(L)
                                     THEN (L.timeout[1] \div D) + 2
                                     ELSE 1)
    /\ \A h \in Holders :
          (InEnter(h) /\ Polling(lock[h]))
             ~> (\/ pc[h] = "held"
                 \/ (pc[h] = "raised" /\ error[h].exc = "ResourceIsLocked"))

LastAttemptAllowed ==
    \E h \in Holders :
        /\ Polling(lock[h]) /\ HasDeadline(lock[h])
        /\ pc[h] = "raised"
        /\ attempts[h] = (lock[h].timeout[1] \div Delay) + 2


\* C32 (success ends the polling loop): a pass of the polling loop leaves
\* __enter__ for the body exactly when its call of the single-shot primitive
\* reported success (a try function answered true, flock() did not fail);
\* no pass is made after a reported success, so none is followed by another
\* backend call, a sleep or ResourceIsLocked.
SuccessEndsPolling ==
    [][\A h \in Holders :
          Polling(lock[h]) /\ pc[h] = "attempt"
             /\ attempts'[h] = attempts[h] + 1
          => LET success == grants'[h] = grants[h] + 1
             IN  /\ pc'[h] = "held" <=> success
                 /\ pc'[h] \in {"sleep", "raised"} <=> ~success
                 /\ lock[h].cls = "pg" => (success <=> answer'[h] = Just(TRUE))
                 /\ grants[h] = 0]_vars

HeldAfterPolling ==
    \E h \in Holders :
        /\ Polling(lock[h]) /\ pc[h] = "held"
        /\ attempts[h] >= 2 /\ grants[h] = 1


\* C33 (PostgreSQL query count): a Lock for which a native blocking function
\* was selected executes one acquire query and never sleeps, whatever its
\* timeout; a Lock with a try function executes one query in each pass; its
\* __exit__ executes the release query iff a release function was selected.
PGQueryCount ==
    \A h \in Holders :
        lock[h].cls = "pg"
        => /\ ~Contains(lock[h].lock_fn, "try")
              => attempts[h] <= 1 /\ pc[h] # "sleep"
           /\ attempts[h] > 0 <=> lock[h].lock_fn \in issued[h]
           /\ pc[h] = "done"
              => (lock[h].unlock_fn # None
                     <=> lock[h].unlock_fn \in issued[h])
                 /\ exits[h] = 1


\* C34 (the file cleaner never removes a held lock file): a lock file leaves
\* the directory only in the cleaner's remove step, after the cleaner's own
\* non-blocking exclusive flock() on that file succeeded and so while no
\* holder has a shared or exclusive lock on it; when its flock() fails the
\* file stays and the cleaner goes on with the next file.
CleanerRemovesOnlyUnheld ==
    [][/\ \A file \in dir \ dir' :
             /\ cleaner.pc = "remove" /\ cleaner.file = file
             /\ fd[Cleaner] = file /\ flocks[Cleaner] = "LOCK_EX"
             /\ \A h \in Holders : fd[h] = file => flocks[h] = "LOCK_UN"
       /\ cleaner.pc = "flock" /\ cleaner'.pc # "flock"
             /\ FlockConflict(fd, flocks, Cleaner, fd[Cleaner], "LOCK_EX")
          => /\ dir' = dir /\ fd' = fd /\ flocks' = flocks
             /\ cleaner'.pc = "for"]_vars

CleanerPassedHeldFile ==
    /\ cleaner.pc = "for" /\ cleaner.file # None
    /\ cleaner.file \in dir
    /\ \E h \in Holders :
          pc[h] = "held" /\ fd[h] = cleaner.file /\ flocks[h] # "LOCK_UN"
    /\ flocks[Cleaner] = "LOCK_UN"
    /\ cleaner.files_to_remove # {}


\* C35 (mutual exclusion survives the file cleaner): whatever the cleaner
\* does between the steps of the holders, two holders are never both in the
\* body of an EXCLUSIVE FileLock on the same resource name.
ExclusionSurvivesCleaner ==
    \A a \in Holders : \A b \in Holders \ {a} :
        ~ /\ pc[a] = "held" /\ pc[b] = "held"
          /\ lock[a].cls = "file" /\ lock[b].cls = "file"
          /\ lock[a].lock_type = EXCLUSIVE /\ lock[b].lock_type = EXCLUSIVE
          /\ lock[a].resource = lock[b].resource


\* C36 (FileLock closes every descriptor it opens): once __exit__ has run,
\* and once __enter__ has raised ResourceIsLocked, the FileLock has no open
\* file object on the lock file.
FileLockClosesDescriptor ==
    \A h \in Holders :
        /\ lock[h].cls = "file"
        /\ \/ pc[h] = "done"
           \/ pc[h] = "raised" /\ error[h].exc = "ResourceIsLocked"
        => fd[h] = None


\* C37 (nested session-scoped locks on one connection stay balanced): of two
\* Locks for one resource entered one inside the other on one PostgreSQL
\* connection with SESSION scope, each __exit__ executes exactly one unlock
\* query; after the inner exit the connection still holds the resource
\* against the other connections, and after the outer exit it holds nothing.
NestedSessionLocksBalanced ==
    LET c == NestingConnection
        k == nest.outer.resource_id
    IN  /\ nest.pc = "after_inner" /\ ~nest.raised
           => /\ nest.unlocks = <<nest.inner.unlock_fn>>
              /\ nest.inner.unlock_fn # None
              /\ PGHolds(pg_locks, c, k)
              /\ \A o \in Holders \ {c} : PGConflict(pg_locks, o, k, FALSE)
              /\ IsExclusive(nest.outer)
                 => \A o \in Holders \ {c} : PGConflict(pg_locks, o, k, TRUE)
        /\ nest.pc = "after_outer" /\ ~nest.raised
           => /\ nest.unlocks = <<nest.inner.unlock_fn, nest.outer.unlock_fn>>
              /\ nest.outer.unlock_fn # None
              /\ pg_locks[c][k] = PGFree

RefusedBesideOuterLock ==
    \E o \in Holders \ {NestingConnection} :
        /\ nest.pc = "after_inner" /\ ~nest.raised
        /\ pc[o] = "raised" /\ attempts[o] = 1
        /\ lock[o].resource = nest.outer.resource
        /\ pg_locks[o][nest.outer.resource_id] = PGFree


\* C38 (Lock/selector consistency): for every PostgreSQL Lock a factory
\* produces, the exit test of the acquire loop depends on what the backend
\* answered exactly when the selected function is a try function, and breaks
\* whatever the answer exactly when it is a native blocking function.
LoopReadsAnswerIffTry ==
    \A h \in Holders :
        lock[h].cls = "pg"
        => LET L == lock[h]
               try == Contains(L.lock_fn, "try")
               reads == LoopBreaks(L.block, Just(TRUE))
                           # LoopBreaks(L.block, Just(FALSE))
               ignores == /\ LoopBreaks(L.block, Just(TRUE))
                          /\ LoopBreaks(L.block, Just(FALSE))
                          /\ LoopBreaks(L.block, Nothing)
           IN  (reads <=> try) /\ (ignores <=> ~try)

====
